---- MODULE Spec2Model ----
(***************************************************************************)
(* A model of rubin: an in-memory string store (store/mod.rs,              *)
(* store/mem/mod.rs), its wire codec (net/parser.rs) and its TCP server    *)
(* (net/server/mod.rs).                                                    *)
(*                                                                         *)
(* Text is modelled as a sequence of one-character strings, so that the    *)
(* splitting and trimming the code performs is computed, not assumed:      *)
(* "SET::a b" is <<"S","E","T",":",":","a"," ","b">>.  The fixed messages  *)
(* the server writes itself ("nothing to do", ...) are single elements.    *)
(***************************************************************************)
EXTENDS Integers, Sequences, FiniteSets, TLC

VARIABLES
    \* ---- storage engine driven directly through the MemStore API
    ms,         \* the MemStore: [strings |-> HashMap<String, String>]
    pre,        \* the MemStore as it was before the last API call
    hist,       \* the API calls made so far, oldest first
    ret,        \* io::Result returned by the last API call
    \* ---- codec applied to one text
    input,      \* the text handed to the codec
    pphase,     \* "input" before the codec has run, "parsed" after
    presult,    \* what parse_request returned for input
    rresult,    \* what parse_response returned for input
    cop,        \* the operation handed to create_request
    cargs,      \* the arguments handed to create_request
    \* ---- server: start()'s accept loop and one handler task per connection
    listening,  \* start() is still in its accept loop
    nconn,      \* connections accepted so far; handler h serves the h-th
    pc,         \* where each handler task is
    hreq,       \* the text each handler's read_from_client returned
    hmsg,       \* each handler's parse_request result
    out,        \* the response text a handler is writing (write_all pending)
    resp,       \* the response texts each client has received, oldest first
    sends,      \* number of send_response calls each handler has made
    owner,      \* the handler holding the store's MutexGuard, 0 when free
    vault,      \* the MemStore behind the Mutex
    disk,       \* files written by Dump: path -> content
    dumpret,    \* the io::Result dump_store returned to each handler
    lockLog,    \* handlers in the order in which they acquired the lock
    before,     \* per connection: the clients already answered when it was made
    \* ---- persistence wrapper: one storage location, one PersistentStore
    dir,        \* the storage directory exists
    snap,       \* the snapshot file in it: [exists, text]
    pst,        \* the PersistentStore, once constructed and until dropped
    flushed,    \* the content write() last saved, and whether the file still
                \* holds what that write() left
    pcall       \* the last call made on the wrapper and how it returned

storeVars == <<ms, pre, hist, ret>>

codecVars == <<input, pphase, presult, rresult, cop, cargs>>

serverVars ==
    <<listening, nconn, pc, hreq, hmsg, out, resp, sends, owner, vault,
      disk, dumpret, lockLog, before>>

persistVars == <<dir, snap, pst, flushed, pcall>>

vars ==
    <<ms, pre, hist, ret, input, pphase, presult, rresult, cop, cargs,
      listening, nconn, pc, hreq, hmsg, out, resp, sends, owner, vault,
      disk, dumpret, lockLog, before, dir, snap, pst, flushed, pcall>>

(***************************************************************************)
(* Bounds                                                                  *)
(***************************************************************************)
\* number of MemStore API calls in one run of the storage-engine machine
MaxOps == 4

\* length of the text that follows the opcode in a codec input
MaxBody == 7

\* connections the server accepts in one run
NumConn == 2

\* length of a text handed to parse_response
MaxResp == 6

(***************************************************************************)
(* HashMap<String, T>: a function whose domain is the set of present keys  *)
(***************************************************************************)
EmptyStr == <<>>

EmptyMap == [k \in {} |-> EmptyStr]

MapPut(m, key, value) ==
    [k \in (DOMAIN m) \cup {key} |-> IF k = key THEN value ELSE m[k]]

MapDel(m, key) == [k \in (DOMAIN m) \ {key} |-> m[k]]

MapLen(m) == Cardinality(DOMAIN m)

\* io::Result<T>; a call returning () carries the empty text as its value
Ok(v) == [ok |-> TRUE, val |-> v]

OkUnit == [ok |-> TRUE, val |-> EmptyStr]

IoErr == [ok |-> FALSE, val |-> EmptyStr]

\* a file: whether it exists and the text it holds
NoFile == [exists |-> FALSE, text |-> <<>>]

FileWith(text) == [exists |-> TRUE, text |-> text]

(***************************************************************************)
(* InnerStore<String> (store/mod.rs).  Each operator returns the map after *)
(* the call and the call's result.                                         *)
(***************************************************************************)
Insert_IfAbsent(inner, key, value) ==
    [inner |-> IF key \in DOMAIN inner THEN inner ELSE MapPut(inner, key, value),
     ret |-> OkUnit]

Insert(inner, key, value) ==
    [inner |-> MapPut(inner, key, value), ret |-> OkUnit]

Retrieve_ErrIfAbsent(inner, key) ==
    IF key \in DOMAIN inner THEN Ok(inner[key]) ELSE IoErr

Retrieve(inner, key) ==
    IF key \in DOMAIN inner THEN Ok(inner[key]) ELSE Ok(EmptyStr)

Remove_KeepsEntry(inner, key) ==
    IF key \in DOMAIN inner
    THEN [inner |-> inner, ret |-> Ok(inner[key])]
    ELSE [inner |-> inner, ret |-> Ok(EmptyStr)]

Remove(inner, key) ==
    IF key \in DOMAIN inner
    THEN [inner |-> MapDel(inner, key), ret |-> Ok(inner[key])]
    ELSE [inner |-> inner, ret |-> Ok(EmptyStr)]

Clear_DropsOne(inner) ==
    [inner |-> IF DOMAIN inner = {} THEN inner
               ELSE MapDel(inner, CHOOSE k \in DOMAIN inner : TRUE),
     ret |-> OkUnit]

Clear(inner) == [inner |-> EmptyMap, ret |-> OkUnit]

(***************************************************************************)
(* MemStore (store/mem/mod.rs): one InnerStore<String> named strings       *)
(***************************************************************************)
MemStoreNew == [strings |-> EmptyMap]

insert_string_FirstWins(m, key, value) ==
    IF key \in DOMAIN m.strings
    THEN [store |-> m, ret |-> Insert(m.strings, key, value).ret]
    ELSE [store |-> [m EXCEPT !.strings = Insert(m.strings, key, value).inner],
          ret |-> Insert(m.strings, key, value).ret]

insert_string(m, key, value) ==
    LET r == Insert(m.strings, key, value)
    IN  [store |-> [m EXCEPT !.strings = r.inner], ret |-> r.ret]

get_string(m, key) == Retrieve(m.strings, key)

remove_string(m, key) ==
    LET r == Remove(m.strings, key)
    IN  [store |-> [m EXCEPT !.strings = r.inner], ret |-> r.ret]

clear_strings(m) ==
    LET r == Clear(m.strings)
    IN  [store |-> [m EXCEPT !.strings = r.inner], ret |-> r.ret]

get_string_store_ref(m) == m.strings

\* the storage-engine machine before any call
StoreIdle ==
    /\ ms = MemStoreNew
    /\ pre = MemStoreNew
    /\ hist = <<>>
    /\ ret = OkUnit

(***************************************************************************)
(* Text helpers: what str::split, str::to_uppercase, str::trim_end and     *)
(* [String]::join compute                                                  *)
(***************************************************************************)
Delim == <<":", ":">>

Space == <<" ">>

LowerCase ==
    <<"a", "b", "c", "d", "e", "f", "g", "h", "i", "j", "k", "l", "m",
      "n", "o", "p", "q", "r", "s", "t", "u", "v", "w", "x", "y", "z">>

UpperCase ==
    <<"A", "B", "C", "D", "E", "F", "G", "H", "I", "J", "K", "L", "M",
      "N", "O", "P", "Q", "R", "S", "T", "U", "V", "W", "X", "Y", "Z">>

UpperChar(c) ==
    IF \E i \in 1..Len(LowerCase) : LowerCase[i] = c
    THEN UpperCase[CHOOSE i \in 1..Len(LowerCase) : LowerCase[i] = c]
    ELSE c

to_uppercase(s) == [i \in 1..Len(s) |-> UpperChar(s[i])]

\* index of the first occurrence of d in s, 0 when there is none
IndexOf(s, d) ==
    LET hits == {i \in 1..(Len(s) - Len(d) + 1) : SubSeq(s, i, i + Len(d) - 1) = d}
    IN  IF hits = {} THEN 0 ELSE CHOOSE i \in hits : \A j \in hits : i <= j

\* str::split(d): the pieces between successive non-overlapping occurrences
\* of d, scanning left to right; a text without d is one piece, also ""
RECURSIVE SplitOn(_, _)
SplitOn(s, d) ==
    LET i == IndexOf(s, d)
    IN  IF i = 0 THEN <<s>>
        ELSE <<SubSeq(s, 1, i - 1)>> \o SplitOn(SubSeq(s, i + Len(d), Len(s)), d)

\* [String]::join(sep)
RECURSIVE JoinWith(_, _)
JoinWith(parts, sep) ==
    IF parts = <<>> THEN <<>>
    ELSE IF Len(parts) = 1 THEN parts[1]
    ELSE parts[1] \o sep \o JoinWith(Tail(parts), sep)

Whitespace == {" ", "\n", "\r", "\t"}

\* str::trim_end
RECURSIVE trim_end(_)
trim_end(s) ==
    IF s # <<>> /\ s[Len(s)] \in Whitespace
    THEN trim_end(SubSeq(s, 1, Len(s) - 1))
    ELSE s

\* str::trim_start
RECURSIVE trim_start(_)
trim_start(s) ==
    IF s # <<>> /\ s[1] \in Whitespace THEN trim_start(Tail(s)) ELSE s

trim_EndOnly(s) == trim_end(s)

\* str::trim
trim(s) == trim_start(trim_end(s))

(***************************************************************************)
(* Operation (net/parser.rs)                                               *)
(***************************************************************************)
Operations ==
    {"StringSet", "StringGet", "StringRemove", "StringClear",
     "Incr", "Decr", "Dump", "Noop", "Error"}

from_string(op) ==
    LET u == to_uppercase(op)
    IN  CASE u = <<"S", "E", "T">> -> "StringSet"
          [] u = <<"G", "E", "T">> -> "StringGet"
          [] u = <<"C", "L", "R">> -> "StringClear"
          [] u = <<"R", "M">> -> "StringRemove"
          [] u = <<"I", "N", "C", "R">> -> "Incr"
          [] u = <<"D", "E", "C", "R">> -> "Decr"
          [] u = <<"N", "O", "O", "P">> -> "Noop"
          [] u = <<"D", "U", "M", "P">> -> "Dump"
          [] OTHER -> "Error"

OpCode_RemoveAsSet(op) ==
    CASE op \in {"StringSet", "StringRemove"} -> <<"S", "E", "T">>
      [] op = "StringGet" -> <<"G", "E", "T">>
      [] op = "StringClear" -> <<"C", "L", "R">>
      [] op = "Incr" -> <<"I", "N", "C", "R">>
      [] op = "Decr" -> <<"D", "E", "C", "R">>
      [] op = "Error" -> <<"E", "R", "R">>
      [] op = "Noop" -> <<"N", "O", "O", "P">>
      [] op = "Dump" -> <<"D", "U", "M", "P">>

\* impl Display for Operation
OpCode(op) ==
    CASE op = "StringSet" -> <<"S", "E", "T">>
      [] op = "StringGet" -> <<"G", "E", "T">>
      [] op = "StringRemove" -> <<"R", "M">>
      [] op = "StringClear" -> <<"C", "L", "R">>
      [] op = "Incr" -> <<"I", "N", "C", "R">>
      [] op = "Decr" -> <<"D", "E", "C", "R">>
      [] op = "Error" -> <<"E", "R", "R">>
      [] op = "Noop" -> <<"N", "O", "O", "P">>
      [] op = "Dump" -> <<"D", "U", "M", "P">>

(***************************************************************************)
(* Message::validate and parse_request (net/parser.rs)                     *)
(***************************************************************************)
validate_SetNeedsOne(op, args) ==
    CASE op = "StringSet" -> Len(args) >= 1
      [] op \in {"StringGet", "StringRemove", "Dump", "Incr", "Decr"} ->
            Len(args) = 1
      [] op \in {"StringClear", "Noop"} -> TRUE
      [] OTHER -> FALSE

validate_ClearNeedsNone(op, args) ==
    CASE op = "StringSet" -> Len(args) >= 2
      [] op \in {"StringGet", "StringRemove", "Dump", "Incr", "Decr"} ->
            Len(args) = 1
      [] op \in {"StringClear", "Noop"} -> Len(args) = 0
      [] OTHER -> FALSE

validate_NoArity(op, args) == op # "Error"

validate(op, args) ==
    CASE op = "StringSet" -> Len(args) >= 2
      [] op \in {"StringGet", "StringRemove", "Dump", "Incr", "Decr"} ->
            Len(args) = 1
      [] op \in {"StringClear", "Noop"} -> TRUE
      [] OTHER -> FALSE

\* Result<Message, MessageError>: op and args for Ok, err and text for Err
MsgOk(op, args) ==
    [ok |-> TRUE, op |-> op, args |-> args, err |-> "", text |-> <<>>]

MsgErr(err, text) ==
    [ok |-> FALSE, op |-> "Error", args |-> <<>>, err |-> err, text |-> text]

NoResult == MsgErr("", <<>>)

parse_request_NoSegmentCheck(req) ==
    LET r_split == SplitOn(req, Delim)
        op == from_string(r_split[1])
    IN  IF op = "Error"
        THEN MsgErr("InvalidFormat", <<"invalid operation: ">> \o r_split[1])
        ELSE LET rest == IF Len(r_split) < 2 THEN <<>> ELSE r_split[2]
                 args == SplitOn(rest, Space)
             IN  IF ~validate(op, args)
                 THEN MsgErr("InvalidMessage", <<"message failed validation">>)
                 ELSE MsgOk(op, args)

parse_request(req) ==
    LET r_split == SplitOn(req, Delim)
        op == from_string(r_split[1])
    IN  IF op = "Error"
        THEN MsgErr("InvalidFormat", <<"invalid operation: ">> \o r_split[1])
        ELSE IF Len(r_split) < 2
        THEN MsgErr("InvalidFormat", <<"not enough arguments for operation">>)
        ELSE LET args == SplitOn(r_split[2], Space)
             IN  IF ~validate(op, args)
                 THEN MsgErr("InvalidMessage", <<"message failed validation">>)
                 ELSE MsgOk(op, args)

\* format!("{}::{}", op_code, args.join(" "))
create_request(op_code, args) == OpCode(op_code) \o Delim \o JoinWith(args, Space)

parse_response_WholePayload(msg) ==
    IF IndexOf(msg, Delim) = 0 THEN <<>>
    ELSE trim(SubSeq(msg, IndexOf(msg, Delim) + Len(Delim), Len(msg)))

parse_response(msg) ==
    LET parts == SplitOn(msg, Delim)
    IN  IF Len(parts) < 2 THEN <<>> ELSE trim(parts[2])

(***************************************************************************)
(* Each machine at rest: the state of the parts a specification leaves     *)
(* unused                                                                  *)
(***************************************************************************)
CodecIdle ==
    /\ input = <<>>
    /\ pphase = "idle"
    /\ presult = NoResult
    /\ rresult = <<>>
    /\ cop = "Noop"
    /\ cargs = <<>>

Conns == 1..NumConn

\* no PersistentStore constructed
NoStore == [alive |-> FALSE, store |-> MemStoreNew, write_on_update |-> FALSE]

\* write() has never succeeded on the location; cut tells what last left the
\* file short of a whole write: nothing ("no"), a failed write_all ("error")
\* or the death of the process inside write_store ("crash")
NeverFlushed ==
    [some |-> FALSE, store |-> MemStoreNew, intact |-> FALSE, cut |-> "no"]

\* a call on the wrapper: ret is "Ok", "Err" or "panic"; err tells an I/O
\* error ("io") from a deserialization error ("parse")
PCall(op, result, err) ==
    [op |-> op, ret |-> result, err |-> err]

NoCall == PCall("none", "Ok", "none")

\* a storage location nothing has been created in
PersistIdle ==
    /\ dir = FALSE
    /\ snap = NoFile
    /\ pst = NoStore
    /\ flushed = NeverFlushed
    /\ pcall = NoCall

\* start(): a fresh MemStore behind the Mutex, no connection accepted yet
ServerIdle ==
    /\ listening = TRUE
    /\ nconn = 0
    /\ pc = [h \in Conns |-> "idle"]
    /\ hreq = [h \in Conns |-> <<>>]
    /\ hmsg = [h \in Conns |-> NoResult]
    /\ out = [h \in Conns |-> <<>>]
    /\ resp = [h \in Conns |-> <<>>]
    /\ sends = [h \in Conns |-> 0]
    /\ owner = 0
    /\ vault = MemStoreNew
    /\ disk = EmptyMap
    /\ dumpret = [h \in Conns |-> "none"]
    /\ lockLog = <<>>
    /\ before = [h \in Conns |-> {}]

(***************************************************************************)
(* The codec as a machine: one input text, then parse_request applied      *)
(***************************************************************************)
\* every text of at most n characters drawn from alphabet A
TextsUpTo(A, n) == UNION {[1..m -> A] : m \in 0..n}

OpTexts ==
    {<<"S", "E", "T">>, <<"G", "E", "T">>, <<"R", "M">>, <<"C", "L", "R">>,
     <<"I", "N", "C", "R">>, <<"D", "E", "C", "R">>, <<"D", "U", "M", "P">>,
     <<"N", "O", "O", "P">>, <<"E", "R", "R">>, <<"s", "e", "t">>,
     <<"B", "A", "D">>, <<>>}

CodecInputs == {o \o b : o \in OpTexts, b \in TextsUpTo({":", " ", "a"}, MaxBody)}

CodecInit ==
    /\ input \in CodecInputs
    /\ pphase = "input"
    /\ presult = NoResult
    /\ rresult = <<>>
    /\ cop = "Noop"
    /\ cargs = <<>>
    /\ StoreIdle
    /\ ServerIdle
    /\ PersistIdle

ParseRequest ==
    /\ pphase = "input"
    /\ presult' = parse_request(input)
    /\ pphase' = "parsed"
    /\ UNCHANGED <<input, rresult, cop, cargs, storeVars, serverVars,
                   persistVars>>

CodecNext == ParseRequest

SpecCodec == CodecInit /\ [][CodecNext]_vars

(***************************************************************************)
(* The same for a response: one text, then parse_response applied          *)
(***************************************************************************)
\* texts as the server frames them, closed by a newline
ResponseTexts ==
    {<<"S", "E", "T", ":", ":", "O", "K", "\n">>,
     <<"G", "E", "T", ":", ":", "\t", "a", " ", "a", "\r", "\n">>,
     <<"G", "E", "T", ":", "\n">>}

ResponseInputs == TextsUpTo({":", " ", "a", "\n"}, MaxResp) \cup ResponseTexts

ResponseInit ==
    /\ input \in ResponseInputs
    /\ pphase = "input"
    /\ presult = NoResult
    /\ rresult = <<>>
    /\ cop = "Noop"
    /\ cargs = <<>>
    /\ StoreIdle
    /\ ServerIdle
    /\ PersistIdle

ParseResponse ==
    /\ pphase = "input"
    /\ rresult' = parse_response(input)
    /\ pphase' = "response"
    /\ UNCHANGED <<input, presult, cop, cargs, storeVars, serverVars,
                   persistVars>>

ResponseNext == ParseResponse

SpecResponse == ResponseInit /\ [][ResponseNext]_vars

(***************************************************************************)
(* Reading a codec input, independently of SplitOn                         *)
(***************************************************************************)
\* positions at which "::" starts in s
DelimAt(s) == {i \in 1..(Len(s) - 1) : s[i] = ":" /\ s[i + 1] = ":"}

Least(S) == CHOOSE i \in S : \A j \in S : i <= j

\* a request is framed when it holds the delimiter at all
Framed(s) == DelimAt(s) # {}

\* the text before the first delimiter
OpText(s) == SubSeq(s, 1, Least(DelimAt(s)) - 1)

\* the text between the first delimiter and the next one that starts after it
ArgText(s) ==
    LET from == Least(DelimAt(s)) + 2
        later == {i \in DelimAt(s) : i >= from}
    IN  SubSeq(s, from, IF later = {} THEN Len(s) ELSE Least(later) - 1)

\* the number of pieces a split on single spaces yields
SpaceSplitCount(s) == 1 + Cardinality({i \in 1..Len(s) : s[i] = " "})

OneArgOps == {"StringGet", "StringRemove", "Incr", "Decr", "Dump"}

ArityFits(op, n) ==
    \/ op = "StringSet" /\ n >= 2
    \/ op \in OneArgOps /\ n = 1

\* C9: a framed request whose opcode is Set, Get, Remove, Incr, Decr or Dump
\* is accepted exactly when the number of space-separated pieces of its
\* argument text fits the operation (Set: at least 2, the others: exactly
\* 1); when accepted the message carries that operation and that many
\* arguments, otherwise the error is InvalidMessage.
C9_ArityDecidesAcceptance ==
    (pphase = "parsed" /\ Framed(input)
       /\ from_string(OpText(input)) \in OneArgOps \cup {"StringSet"})
      => LET op == from_string(OpText(input))
             n == SpaceSplitCount(ArgText(input))
         IN  /\ presult.ok <=> ArityFits(op, n)
             /\ presult.ok => (presult.op = op /\ Len(presult.args) = n)
             /\ ~presult.ok => presult.err = "InvalidMessage"

\* "SET::a" (a key and no value) was parsed and refused as InvalidMessage
C9_Witness ==
    /\ pphase = "parsed"
    /\ input = <<"S", "E", "T", ":", ":", "a">>
    /\ presult = MsgErr("InvalidMessage", <<"message failed validation">>)

\* C10 as stated: a framed Clear or Noop request with a non-empty argument
\* text is refused as InvalidMessage, and an accepted Clear or Noop message
\* has no arguments.
C10_ClearNoopNeedZeroArgs ==
    (pphase = "parsed" /\ Framed(input)
       /\ from_string(OpText(input)) \in {"StringClear", "Noop"})
      => /\ ArgText(input) # <<>>
              => (~presult.ok /\ presult.err = "InvalidMessage")
         /\ presult.ok => presult.args = <<>>

\* C10 as amended: Clear and Noop are not arity-checked. Every framed Clear
\* or Noop request is accepted whatever its argument text, and the decoded
\* message carries the space-separated pieces of that text: at least one
\* argument, the empty text when nothing follows the delimiter.
C10_ClearNoopUnchecked ==
    (pphase = "parsed" /\ Framed(input)
       /\ from_string(OpText(input)) \in {"StringClear", "Noop"})
      => /\ presult.ok
         /\ presult.op = from_string(OpText(input))
         /\ Len(presult.args) = SpaceSplitCount(ArgText(input))
         /\ Len(presult.args) >= 1
         /\ JoinWith(presult.args, Space) = ArgText(input)

\* "CLR::a a" was parsed and accepted with its two arguments
C10_Witness ==
    /\ pphase = "parsed"
    /\ input = <<"C", "L", "R", ":", ":", "a", " ", "a">>
    /\ presult = MsgOk("StringClear", <<(<<"a">>), (<<"a">>)>>)

\* r is s from its first to its last character that is not whitespace
IsTrimOf(r, s) ==
    LET solid == {k \in 1..Len(s) : s[k] \notin Whitespace}
    IN  IF solid = {} THEN r = <<>>
        ELSE r = SubSeq(s, Least(solid),
                        CHOOSE k \in solid : \A l \in solid : l <= k)

\* C13: parse_response returns a text for every input, never an error: the
\* segment that follows the first `::` (up to the next `::`, if any) with
\* the whitespace at both ends removed, or the empty text when the input
\* holds no `::`.
C13_ResponseDecodingTotal ==
    pphase = "response"
      => /\ Len(rresult) <= Len(input)
         /\ Framed(input) => IsTrimOf(rresult, ArgText(input))
         /\ ~Framed(input) => rresult = <<>>

\* the response "GET::<tab>a a<cr><lf>" was decoded to "a a"
C13_Witness ==
    /\ pphase = "response"
    /\ input = <<"G", "E", "T", ":", ":", "\t", "a", " ", "a", "\r", "\n">>
    /\ rresult = <<"a", " ", "a">>

(***************************************************************************)
(* The storage engine as a machine: any sequence of API calls              *)
(***************************************************************************)
StoreKeys == {<<"a">>, <<"b">>}

StoreVals == {EmptyStr, <<"x">>, <<"y">>}

Call(op, key, val) == [op |-> op, key |-> key, val |-> val]

StoreInit ==
    /\ StoreIdle
    /\ CodecIdle
    /\ ServerIdle
    /\ PersistIdle

StoreInsert(k, v) ==
    /\ Len(hist) < MaxOps
    /\ LET r == insert_string(ms, k, v)
       IN  /\ ms' = r.store
           /\ ret' = r.ret
    /\ pre' = ms
    /\ hist' = Append(hist, Call("insert", k, v))
    /\ UNCHANGED <<codecVars, serverVars, persistVars>>

StoreGet(k) ==
    /\ Len(hist) < MaxOps
    /\ ret' = get_string(ms, k)
    /\ ms' = ms
    /\ pre' = ms
    /\ hist' = Append(hist, Call("get", k, EmptyStr))
    /\ UNCHANGED <<codecVars, serverVars, persistVars>>

StoreRemove(k) ==
    /\ Len(hist) < MaxOps
    /\ LET r == remove_string(ms, k)
       IN  /\ ms' = r.store
           /\ ret' = r.ret
    /\ pre' = ms
    /\ hist' = Append(hist, Call("remove", k, EmptyStr))
    /\ UNCHANGED <<codecVars, serverVars, persistVars>>

StoreClear ==
    /\ Len(hist) < MaxOps
    /\ LET r == clear_strings(ms)
       IN  /\ ms' = r.store
           /\ ret' = r.ret
    /\ pre' = ms
    /\ hist' = Append(hist, Call("clear", EmptyStr, EmptyStr))
    /\ UNCHANGED <<codecVars, serverVars, persistVars>>

StoreNext ==
    \/ \E k \in StoreKeys, v \in StoreVals : StoreInsert(k, v)
    \/ \E k \in StoreKeys : StoreGet(k)
    \/ \E k \in StoreKeys : StoreRemove(k)
    \/ StoreClear

SpecStore == StoreInit /\ [][StoreNext]_vars

(***************************************************************************)
(* Reading the call history                                                *)
(***************************************************************************)
Front(s) == SubSeq(s, 1, Len(s) - 1)

LastCall == hist[Len(hist)]

\* The most recent call in h that decides whether key k is present:
\* an insert of k, a remove of k or a clear; "never" when there is none.
RECURSIVE LastWrite(_, _)
LastWrite(h, k) ==
    IF h = <<>> THEN Call("never", k, EmptyStr)
    ELSE LET e == h[Len(h)]
         IN  IF \/ e.op = "clear"
                \/ (e.op \in {"insert", "remove"} /\ e.key = k)
             THEN e
             ELSE LastWrite(Front(h), k)

\* C1: whatever calls came before, every key whose most recent deciding call
\* is insert(k, v) reads back as v (also through an actual get call), and an
\* insert is an upsert: it never fails, and the number of keys grows by one
\* exactly when the key was absent, so a key is never held twice.
C1_ReadBackLastInsert ==
    /\ \A k \in StoreKeys :
          LastWrite(hist, k).op = "insert"
             => get_string(ms, k) = Ok(LastWrite(hist, k).val)
    /\ (hist # <<>> /\ LastCall.op = "get"
          /\ LastWrite(hist, LastCall.key).op = "insert")
         => ret = Ok(LastWrite(hist, LastCall.key).val)
    /\ (hist # <<>> /\ LastCall.op = "insert")
         => /\ ret.ok
            /\ MapLen(ms.strings) =
                 MapLen(pre.strings)
                   + (IF LastCall.key \in DOMAIN pre.strings THEN 0 ELSE 1)

\* a second insert on a key overwrote the first and a get returned the second
C1_Witness ==
    /\ Len(hist) = 3
    /\ hist[1] = Call("insert", <<"a">>, <<"x">>)
    /\ hist[2] = Call("insert", <<"a">>, <<"y">>)
    /\ hist[3] = Call("get", <<"a">>, EmptyStr)
    /\ ret = Ok(<<"y">>)
    /\ MapLen(ms.strings) = 1

\* C2: a get of a key that was never inserted, or was removed or cleared
\* since its last insert, returns Ok("") and not an error; a get never
\* changes the store.
C2_AbsentReadsEmpty ==
    /\ \A k \in StoreKeys :
          LastWrite(hist, k).op # "insert" => get_string(ms, k) = Ok(EmptyStr)
    /\ (hist # <<>> /\ LastCall.op = "get")
         => /\ ret.ok
            /\ ms = pre
            /\ LastWrite(hist, LastCall.key).op # "insert" => ret = Ok(EmptyStr)

\* a key was inserted with a non-empty value, removed, and then read as ""
C2_Witness ==
    /\ Len(hist) = 3
    /\ hist[1] = Call("insert", <<"a">>, <<"x">>)
    /\ hist[2] = Call("remove", <<"a">>, EmptyStr)
    /\ hist[3] = Call("get", <<"a">>, EmptyStr)
    /\ ret = Ok(EmptyStr)

\* C3: remove(k) returns what was stored under k just before the call ("" if
\* k was absent), leaves k absent and every other key as it was; a later get
\* of k with no insert of k in between returns "".
C3_RemoveReturnsPrior ==
    /\ (hist # <<>> /\ LastCall.op = "remove")
         => LET k == LastCall.key
            IN  /\ ret = Ok(IF k \in DOMAIN pre.strings
                            THEN pre.strings[k] ELSE EmptyStr)
                /\ k \notin DOMAIN ms.strings
                /\ DOMAIN ms.strings = (DOMAIN pre.strings) \ {k}
                /\ \A j \in DOMAIN ms.strings : ms.strings[j] = pre.strings[j]
    /\ (hist # <<>> /\ LastCall.op = "get"
          /\ LastWrite(hist, LastCall.key).op = "remove")
         => ret = Ok(EmptyStr)

\* with two keys stored, one was removed (returning its value) and then read
C3_Witness ==
    /\ Len(hist) = 4
    /\ hist[1].op = "insert" /\ hist[1].key = <<"a">> /\ hist[1].val = <<"x">>
    /\ hist[2].op = "insert" /\ hist[2].key = <<"b">> /\ hist[2].val = <<"y">>
    /\ hist[3] = Call("remove", <<"a">>, EmptyStr)
    /\ hist[4] = Call("get", <<"a">>, EmptyStr)
    /\ ret = Ok(EmptyStr)
    /\ ms.strings = MapPut(EmptyMap, <<"b">>, <<"y">>)

\* C4: right after clear() the store holds no key, and a get of any key
\* whose most recent deciding call is a clear returns "".
C4_ClearEmpties ==
    /\ (hist # <<>> /\ LastCall.op = "clear")
         => /\ ms.strings = EmptyMap
            /\ ret.ok
            /\ \A k \in StoreKeys : get_string(ms, k) = Ok(EmptyStr)
    /\ (hist # <<>> /\ LastCall.op = "get"
          /\ LastWrite(hist, LastCall.key).op = "clear")
         => ret = Ok(EmptyStr)

\* two keys were inserted, the store cleared, and one of the keys read as ""
C4_Witness ==
    /\ Len(hist) = 4
    /\ hist[1].op = "insert" /\ hist[1].key = <<"a">> /\ hist[1].val = <<"x">>
    /\ hist[2].op = "insert" /\ hist[2].key = <<"b">> /\ hist[2].val = <<"y">>
    /\ hist[3].op = "clear"
    /\ hist[4] = Call("get", <<"b">>, EmptyStr)
    /\ ret = Ok(EmptyStr)
    /\ ms.strings = EmptyMap

(***************************************************************************)
(* Server (net/server/mod.rs): reading a request and writing a response    *)
(***************************************************************************)
\* a byte that is not valid UTF-8, and the character that replaces it
InvalidByte == "0xFF"

ReplacementChar == "U+FFFD"

from_utf8_lossy(bytes) ==
    [i \in 1..Len(bytes) |->
        IF bytes[i] = InvalidByte THEN ReplacementChar ELSE bytes[i]]

\* the text read_from_client returns for the bytes one read() delivered
read_from_client(bytes) ==
    IF Len(bytes) = 0 THEN <<>> ELSE trim_end(from_utf8_lossy(bytes))

\* the text send_response writes: format!("{}::{}\n", code, msg)
Response(code, msg) == OpCode(code) \o Delim \o msg \o <<"\n">>

OkText == <<"O", "K">>

NoopText == <<"nothing to do">>

\* what the handler passes to send_response when parse_request failed
ErrorReply_Generic(res) == Response("Error", <<"invalid message">>)

ErrorReply(res) == Response("Error", res.text)

(***************************************************************************)
(* serde_json over MemStore { strings: InnerStore { inner: HashMap } }     *)
(* (store/mod.rs, store/mem/mod.rs): to_string_pretty writes the text,     *)
(* from_str reads it back.  A HashMap is written in its iteration order,   *)
(* which is any order of its keys.                                         *)
(***************************************************************************)
DQ == "\""

BS == "\\"

\* the characters written behind a backslash, and the letter that follows it
Escaped == {DQ, BS, "\n", "\r", "\t"}

EscapeLetter(c) ==
    CASE c = "\n" -> "n"
      [] c = "\r" -> "r"
      [] c = "\t" -> "t"
      [] OTHER -> c

EscapeLetters == {DQ, BS, "n", "r", "t"}

UnescapeLetter(c) ==
    CASE c = "n" -> "\n"
      [] c = "r" -> "\r"
      [] c = "t" -> "\t"
      [] OTHER -> c

format_escaped_str_Raw(s) == s

RECURSIVE format_escaped_str(_)
format_escaped_str(s) ==
    IF s = <<>> THEN <<>>
    ELSE (IF Head(s) \in Escaped
          THEN <<BS, EscapeLetter(Head(s))>>
          ELSE <<Head(s)>>) \o format_escaped_str(Tail(s))

JsonString(s) == <<DQ>> \o format_escaped_str(s) \o <<DQ>>

Indent(n) == [i \in 1..n |-> " "]

\* every order in which the keys of map can be iterated
KeyOrders(map) ==
    {o \in [1..Cardinality(DOMAIN map) -> DOMAIN map] :
        \A i, j \in DOMAIN o : o[i] = o[j] => i = j}

\* the entries of the innermost object, one per line, in the given order
RECURSIVE EntriesText(_, _, _)
EntriesText(map, order, i) ==
    IF i > Len(order) THEN <<>>
    ELSE (IF i = 1 THEN <<"\n">> ELSE <<",", "\n">>)
           \o Indent(6) \o JsonString(order[i]) \o <<":", " ">>
           \o JsonString(map[order[i]])
           \o EntriesText(map, order, i + 1)

MapText(map, order) ==
    IF order = <<>> THEN <<"{", "}">>
    ELSE <<"{">> \o EntriesText(map, order, 1) \o <<"\n">> \o Indent(4)
           \o <<"}">>

StringsField == <<"s", "t", "r", "i", "n", "g", "s">>

InnerField == <<"i", "n", "n", "e", "r">>

to_string_pretty(m, order) ==
    <<"{", "\n">> \o Indent(2) \o JsonString(StringsField)
      \o <<":", " ", "{", "\n">> \o Indent(4) \o JsonString(InnerField)
      \o <<":", " ">> \o MapText(m.strings, order)
      \o <<"\n">> \o Indent(2) \o <<"}", "\n", "}">>

\* ---- from_str::<MemStore>, for texts of the shape to_string_pretty
\* writes (the two named fields, in that order) with any JSON whitespace;
\* every other text is a parse error.  Positions are 1-based; 0 is failure.
RECURSIVE SkipWs(_, _)
SkipWs(t, i) ==
    IF i <= Len(t) /\ t[i] \in Whitespace THEN SkipWs(t, i + 1) ELSE i

\* position after the literal lit when it starts at j; 0 when it does not
ExpectAt(t, j, lit) ==
    IF j + Len(lit) - 1 <= Len(t) /\ SubSeq(t, j, j + Len(lit) - 1) = lit
    THEN j + Len(lit)
    ELSE 0

\* position after the literal lit, which must follow optional whitespace;
\* position 0 stands for a parse that has already failed
Expect(t, i, lit) == IF i = 0 THEN 0 ELSE ExpectAt(t, SkipWs(t, i), lit)

\* position after the literals lits, one after the other
RECURSIVE ExpectAll(_, _, _)
ExpectAll(t, i, lits) ==
    IF lits = <<>> THEN i
    ELSE ExpectAll(t, Expect(t, i, Head(lits)), Tail(lits))

NoParse == [next |-> 0, val |-> <<>>]

\* the characters of a string up to its closing quote, escapes undone
RECURSIVE StrBody(_, _, _)
StrBody(t, i, acc) ==
    IF i > Len(t) THEN NoParse
    ELSE IF t[i] = DQ THEN [next |-> i + 1, val |-> acc]
    ELSE IF t[i] = BS
    THEN IF i + 1 <= Len(t) /\ t[i + 1] \in EscapeLetters
         THEN StrBody(t, i + 2, Append(acc, UnescapeLetter(t[i + 1])))
         ELSE NoParse
    ELSE IF t[i] \in {"\n", "\r", "\t"} THEN NoParse
    ELSE StrBody(t, i + 1, Append(acc, t[i]))

\* the string whose opening quote has been read up to position j
StrFrom(t, j) == IF j = 0 THEN NoParse ELSE StrBody(t, j, <<>>)

ParseStr(t, i) == StrFrom(t, Expect(t, i, <<DQ>>))

NoMap == [next |-> 0, map |-> EmptyMap]

\* "key": "value" pairs separated by commas, up to the closing brace; a key
\* that comes twice keeps its last value
RECURSIVE ParseEntries(_, _, _)

\* what follows a pair at position j: a comma and more pairs, or the brace
EntryEnd(t, j, m) ==
    IF j > Len(t) THEN NoMap
    ELSE IF t[j] = "," THEN ParseEntries(t, j + 1, m)
    ELSE IF t[j] = "}" THEN [next |-> j + 1, map |-> m]
    ELSE NoMap

EntryValue(t, k, v, m) ==
    IF v.next = 0 THEN NoMap
    ELSE EntryEnd(t, SkipWs(t, v.next), MapPut(m, k.val, v.val))

EntryKey(t, k, m) ==
    IF k.next = 0 THEN NoMap
    ELSE EntryValue(t, k, ParseStr(t, Expect(t, k.next, <<":">>)), m)

ParseEntries(t, i, m) == EntryKey(t, ParseStr(t, i), m)

\* the map whose opening brace has been read up to position o, with c the
\* position after a closing brace that follows at once
MapBody(t, o, c) ==
    IF o = 0 THEN NoMap
    ELSE IF c # 0 THEN [next |-> c, map |-> EmptyMap]
    ELSE ParseEntries(t, o, EmptyMap)

MapFrom(t, o) == MapBody(t, o, Expect(t, o, <<"}">>))

ParseMap(t, i) == MapFrom(t, Expect(t, i, <<"{">>))

ParseError == [ok |-> FALSE, store |-> MemStoreNew]

\* {"strings": {"inner":  up to the map of the entries
StoreHeader ==
    << <<"{">>, JsonString(StringsField), <<":">>,
       <<"{">>, JsonString(InnerField), <<":">> >>

\* the two closing braces after the map, then nothing but whitespace
StoreEnd(t, mp, e) ==
    IF e # 0 /\ SkipWs(t, e) = Len(t) + 1
    THEN [ok |-> TRUE, store |-> [strings |-> mp.map]]
    ELSE ParseError

StoreFrom(t, mp) ==
    StoreEnd(t, mp, ExpectAll(t, mp.next, << <<"}">>, <<"}">> >>))

from_str(t) == StoreFrom(t, ParseMap(t, ExpectAll(t, 1, StoreHeader)))

(***************************************************************************)
(* write_store and write_store_sync                                        *)
(* (store/persistence/file_handling.rs): the store is serialized,          *)
(* File::create truncates the file, write_all fills it.  File::create can  *)
(* fail, leaving the file as it was; write_all can fail after any part of  *)
(* the text has been written.                                              *)
(***************************************************************************)
DumpOutcomes == {"ok", "create_err", "write_err"}

\* how much of raw a failing write_all has written: nothing at one end,
\* all but its last byte at the other
PartialWrites(raw) == {0, Len(raw) - 1}

write_store(store, file, outcome, order, written) ==
    LET raw == to_string_pretty(store, order)
    IN  CASE outcome = "ok" -> [file |-> FileWith(raw), ret |-> OkUnit]
          [] outcome = "create_err" -> [file |-> file, ret |-> IoErr]
          [] outcome = "write_err" ->
                [file |-> FileWith(SubSeq(raw, 1, written)), ret |-> IoErr]

write_store_sync_OkOnShortWrite(store, file, outcome, order, written) ==
    LET raw == to_string_pretty(store, order)
    IN  CASE outcome = "ok" ->
                [file |-> FileWith(SubSeq(raw, 1, Len(raw) - 1)),
                 ret |-> OkUnit]
          [] outcome = "create_err" -> [file |-> file, ret |-> IoErr]
          [] outcome = "write_err" ->
                [file |-> FileWith(SubSeq(raw, 1, written)), ret |-> IoErr]

write_store_sync(store, file, outcome, order, written) ==
    LET raw == to_string_pretty(store, order)
    IN  CASE outcome = "ok" -> [file |-> FileWith(raw), ret |-> OkUnit]
          [] outcome = "create_err" -> [file |-> file, ret |-> IoErr]
          [] outcome = "write_err" ->
                [file |-> FileWith(SubSeq(raw, 1, written)), ret |-> IoErr]

\* the file at path in d, a map from paths to the texts of the files there
FileAt(d, path) == IF path \in DOMAIN d THEN FileWith(d[path]) ELSE NoFile

\* MemStore::dump_store (store/mem/mod.rs)
dump_store(m, d, filepath, outcome, order, written) ==
    LET r == write_store_sync(m, FileAt(d, filepath), outcome, order, written)
    IN  [disk |-> IF r.file.exists THEN MapPut(d, filepath, r.file.text) ELSE d,
         ret |-> r.ret]

(***************************************************************************)
(* handler: the match on message.op, run with the lock held.  It yields    *)
(* the store and the files afterwards and the response handed to           *)
(* send_response, if the branch sends one.                                 *)
(***************************************************************************)
NoReply == [send |-> FALSE, text |-> <<>>]

\* let key = &message.args[0]
FirstArg(args) == args[1]

SetValue_Key(args) == args[1]

\* let value = &message.args[1]
SetValue(args) == args[2]

Reply_AsNoop(code, msg) == [send |-> TRUE, text |-> Response("Noop", msg)]

Reply(code, msg) == [send |-> TRUE, text |-> Response(code, msg)]

handler_dispatch(message, m, d, outcome, order, written) ==
    LET op == message.op
        args == message.args
    IN  CASE op = "StringSet" ->
                LET r == insert_string(m, FirstArg(args), SetValue(args))
                IN  [vault |-> r.store, disk |-> d, dumpret |-> "none",
                     reply |-> Reply(op, OkText)]
          [] op = "StringGet" ->
                LET r == get_string(m, FirstArg(args))
                IN  [vault |-> m, disk |-> d, dumpret |-> "none",
                     reply |-> IF r.ok THEN Reply(op, r.val) ELSE NoReply]
          [] op = "StringRemove" ->
                LET r == remove_string(m, FirstArg(args))
                IN  [vault |-> r.store, disk |-> d, dumpret |-> "none",
                     reply |-> IF r.ret.ok THEN Reply(op, r.ret.val)
                               ELSE NoReply]
          [] op = "StringClear" ->
                LET r == clear_strings(m)
                IN  [vault |-> r.store, disk |-> d, dumpret |-> "none",
                     reply |-> IF r.ret.ok THEN Reply(op, OkText) ELSE NoReply]
          [] op = "Dump" ->
                LET r == dump_store(m, d, FirstArg(args), outcome, order,
                                    written)
                IN  [vault |-> m, disk |-> r.disk,
                     dumpret |-> IF r.ret.ok THEN "ok" ELSE "err",
                     reply |-> IF r.ret.ok THEN Reply(op, OkText) ELSE NoReply]
          [] OTHER ->
                [vault |-> m, disk |-> d, dumpret |-> "none",
                 reply |-> Reply("Noop", NoopText)]

(***************************************************************************)
(* tokio::sync::Mutex<MemStore>                                            *)
(***************************************************************************)
MutexAvailable_Always(o) == TRUE

\* store.lock().await completes only when no guard is alive
MutexAvailable(o) == o = 0

GuardDropped_Held(o, h) == o

\* Drop for MutexGuard at the end of handler
GuardDropped(o, h) == IF o = h THEN 0 ELSE o

UnwindDrop_Leak(o, h) == o

\* a panic in send_response unwinds the task and drops its locals
UnwindDrop(o, h) == GuardDropped(o, h)

(***************************************************************************)
(* The server as a machine                                                 *)
(***************************************************************************)
\* the bytes a client may send on a connection
ServerRequests ==
    {<<"S", "E", "T", ":", ":", "a", " ", "x">>,
     <<"S", "E", "T", ":", ":", "a", " ", "y">>,
     <<"S", "E", "T", ":", ":", "a", " ", "x", " ", "y">>,
     <<"S", "E", "T", ":", ":", "a", " ">>,
     <<"G", "E", "T", ":", ":", "a", "\n">>,
     <<"R", "M", ":", ":", "a">>,
     <<"C", "L", "R", ":", ":">>,
     <<"D", "U", "M", "P", ":", ":", "p">>,
     <<"I", "N", "C", "R", ":", ":", "a">>,
     <<"N", "O", "O", "P", ":", ":">>,
     <<"X", ":", ":", "a">>,
     <<"B", "A", "D", "O", "P", " ", InvalidByte>>,
     <<"G", "E", "T">>,
     <<>>}

EndPcs == {"done", "panic_peer", "panic_read", "panic_write", "dropped"}

ServerInit ==
    /\ ServerIdle
    /\ StoreIdle
    /\ CodecIdle
    /\ PersistIdle

\* start(): listener.accept() and client.peer_addr() succeed, handler spawned
Accept(h) ==
    /\ listening
    /\ h = nconn + 1
    /\ nconn' = h
    /\ pc' = [pc EXCEPT ![h] = "read"]
    /\ before' = [before EXCEPT ![h] = {g \in Conns : resp[g] # <<>>}]
    /\ UNCHANGED <<listening, hreq, hmsg, out, resp, sends, owner, vault,
                   disk, dumpret, lockLog, storeVars, codecVars, persistVars>>

\* start(): listener.accept().await? returns the error; the loop is left
\* (looked at only while the run has connections left to accept)
AcceptFails ==
    /\ listening
    /\ nconn < NumConn
    /\ listening' = FALSE
    /\ UNCHANGED <<nconn, pc, hreq, hmsg, out, resp, sends, owner, vault,
                   disk, dumpret, lockLog, before, storeVars, codecVars,
                   persistVars>>

\* start(): client.peer_addr()? returns the error; the accepted connection
\* is dropped and the loop is left
AcceptPeerAddrFails(h) ==
    /\ listening
    /\ h = nconn + 1
    /\ nconn' = h
    /\ pc' = [pc EXCEPT ![h] = "dropped"]
    /\ listening' = FALSE
    /\ UNCHANGED <<hreq, hmsg, out, resp, sends, owner, vault, disk, dumpret,
                   lockLog, before, storeVars, codecVars, persistVars>>

\* handler: peer_addr().expect(..) panics
HandlerPeerAddrFails(h) ==
    /\ pc[h] = "read"
    /\ pc' = [pc EXCEPT ![h] = "panic_peer"]
    /\ UNCHANGED <<listening, nconn, hreq, hmsg, out, resp, sends, owner,
                   vault, disk, dumpret, lockLog, before, storeVars,
                   codecVars, persistVars>>

\* read_from_client: read().expect(..) panics
HandlerReadFails(h) ==
    /\ pc[h] = "read"
    /\ pc' = [pc EXCEPT ![h] = "panic_read"]
    /\ UNCHANGED <<listening, nconn, hreq, hmsg, out, resp, sends, owner,
                   vault, disk, dumpret, lockLog, before, storeVars,
                   codecVars, persistVars>>

HandlerRead_LockFirst(h, bytes) ==
    /\ pc[h] = "read"
    /\ MutexAvailable(owner)
    /\ owner' = h
    /\ lockLog' = Append(lockLog, h)
    /\ UNCHANGED <<listening, nconn, pc, hreq, hmsg, out, resp, sends, vault,
                   disk, dumpret, before, storeVars, codecVars, persistVars>>

\* handler: the read completes with the client's bytes, the text is parsed,
\* and on a parse error send_response(Error, reason) is started
HandlerRead(h, bytes) ==
    /\ pc[h] = "read"
    /\ hreq' = [hreq EXCEPT ![h] = read_from_client(bytes)]
    /\ LET res == parse_request(read_from_client(bytes))
       IN  /\ hmsg' = [hmsg EXCEPT ![h] = res]
           /\ IF res.ok
              THEN /\ pc' = [pc EXCEPT ![h] = "lock_wait"]
                   /\ UNCHANGED <<out, sends>>
              ELSE /\ pc' = [pc EXCEPT ![h] = "send_err"]
                   /\ out' = [out EXCEPT ![h] = ErrorReply(res)]
                   /\ sends' = [sends EXCEPT ![h] = @ + 1]
    /\ UNCHANGED <<listening, nconn, resp, owner, vault, disk, dumpret,
                   lockLog, before, storeVars, codecVars, persistVars>>

\* the error response is written; the handler returns
SendErrDone(h) ==
    /\ pc[h] = "send_err"
    /\ resp' = [resp EXCEPT ![h] = Append(@, out[h])]
    /\ out' = [out EXCEPT ![h] = <<>>]
    /\ pc' = [pc EXCEPT ![h] = "done"]
    /\ UNCHANGED <<listening, nconn, hreq, hmsg, sends, owner, vault, disk,
                   dumpret, lockLog, before, storeVars, codecVars,
                   persistVars>>

\* send_response: write_all(..).expect(..) panics
SendErrFails(h) ==
    /\ pc[h] = "send_err"
    /\ out' = [out EXCEPT ![h] = <<>>]
    /\ pc' = [pc EXCEPT ![h] = "panic_write"]
    /\ UNCHANGED <<listening, nconn, hreq, hmsg, resp, sends, owner, vault,
                   disk, dumpret, lockLog, before, storeVars, codecVars,
                   persistVars>>

LockAndDispatch_ReleaseFirst(h, outcome) ==
    /\ pc[h] = "lock_wait"
    /\ MutexAvailable(owner)
    /\ outcome \in (IF hmsg[h].op = "Dump" THEN DumpOutcomes ELSE {"ok"})
    /\ lockLog' = Append(lockLog, h)
    /\ \E order \in (IF hmsg[h].op = "Dump" THEN KeyOrders(vault.strings)
                     ELSE {<<>>}) :
       \E written \in (IF hmsg[h].op = "Dump" /\ outcome = "write_err"
                       THEN PartialWrites(to_string_pretty(vault, order))
                       ELSE {0}) :
       LET r == handler_dispatch(hmsg[h], vault, disk, outcome, order, written)
       IN  /\ vault' = r.vault
           /\ disk' = r.disk
           /\ dumpret' = [dumpret EXCEPT ![h] = r.dumpret]
           /\ owner' = GuardDropped(h, h)
           /\ IF r.reply.send
              THEN /\ out' = [out EXCEPT ![h] = r.reply.text]
                   /\ sends' = [sends EXCEPT ![h] = @ + 1]
                   /\ pc' = [pc EXCEPT ![h] = "respond"]
              ELSE /\ pc' = [pc EXCEPT ![h] = "done"]
                   /\ UNCHANGED <<out, sends>>
    /\ UNCHANGED <<listening, nconn, hreq, hmsg, resp, before, storeVars,
                   codecVars, persistVars>>

\* store.lock().await completes and, with no suspension point in between,
\* the match on message.op runs up to its send_response; a branch that sends
\* nothing falls out of the match and handler returns, dropping the guard
LockAndDispatch(h, outcome) ==
    /\ pc[h] = "lock_wait"
    /\ MutexAvailable(owner)
    /\ outcome \in (IF hmsg[h].op = "Dump" THEN DumpOutcomes ELSE {"ok"})
    /\ lockLog' = Append(lockLog, h)
    /\ \E order \in (IF hmsg[h].op = "Dump" THEN KeyOrders(vault.strings)
                     ELSE {<<>>}) :
       \E written \in (IF hmsg[h].op = "Dump" /\ outcome = "write_err"
                       THEN PartialWrites(to_string_pretty(vault, order))
                       ELSE {0}) :
       LET r == handler_dispatch(hmsg[h], vault, disk, outcome, order, written)
       IN  /\ vault' = r.vault
           /\ disk' = r.disk
           /\ dumpret' = [dumpret EXCEPT ![h] = r.dumpret]
           /\ IF r.reply.send
              THEN /\ out' = [out EXCEPT ![h] = r.reply.text]
                   /\ sends' = [sends EXCEPT ![h] = @ + 1]
                   /\ pc' = [pc EXCEPT ![h] = "respond"]
                   /\ owner' = h
              ELSE /\ pc' = [pc EXCEPT ![h] = "done"]
                   /\ owner' = GuardDropped(h, h)
                   /\ UNCHANGED <<out, sends>>
    /\ UNCHANGED <<listening, nconn, hreq, hmsg, resp, before, storeVars,
                   codecVars, persistVars>>

RespondDone_ReadAgain(h) ==
    /\ pc[h] = "respond"
    /\ resp' = [resp EXCEPT ![h] = Append(@, out[h])]
    /\ out' = [out EXCEPT ![h] = <<>>]
    /\ pc' = [pc EXCEPT ![h] = "read"]
    /\ owner' = GuardDropped(owner, h)
    /\ UNCHANGED <<listening, nconn, hreq, hmsg, sends, vault, disk, dumpret,
                   lockLog, before, storeVars, codecVars, persistVars>>

\* the response is written; handler returns, dropping the guard
RespondDone(h) ==
    /\ pc[h] = "respond"
    /\ resp' = [resp EXCEPT ![h] = Append(@, out[h])]
    /\ out' = [out EXCEPT ![h] = <<>>]
    /\ pc' = [pc EXCEPT ![h] = "done"]
    /\ owner' = GuardDropped(owner, h)
    /\ UNCHANGED <<listening, nconn, hreq, hmsg, sends, vault, disk, dumpret,
                   lockLog, before, storeVars, codecVars, persistVars>>

\* send_response: write_all(..).expect(..) panics with the guard alive
RespondFails(h) ==
    /\ pc[h] = "respond"
    /\ out' = [out EXCEPT ![h] = <<>>]
    /\ pc' = [pc EXCEPT ![h] = "panic_write"]
    /\ owner' = UnwindDrop(owner, h)
    /\ UNCHANGED <<listening, nconn, hreq, hmsg, resp, sends, vault, disk,
                   dumpret, lockLog, before, storeVars, codecVars,
                   persistVars>>

ServerNext ==
    \/ \E h \in Conns : Accept(h)
    \/ AcceptFails
    \/ \E h \in Conns : AcceptPeerAddrFails(h)
    \/ \E h \in Conns : HandlerPeerAddrFails(h)
    \/ \E h \in Conns : HandlerReadFails(h)
    \/ \E h \in Conns, bytes \in ServerRequests : HandlerRead(h, bytes)
    \/ \E h \in Conns : SendErrDone(h)
    \/ \E h \in Conns : SendErrFails(h)
    \/ \E h \in Conns, outcome \in DumpOutcomes : LockAndDispatch(h, outcome)
    \/ \E h \in Conns : RespondDone(h)
    \/ \E h \in Conns : RespondFails(h)

SpecServer == ServerInit /\ [][ServerNext]_vars

(***************************************************************************)
(* Reading a server run                                                    *)
(***************************************************************************)
InLog(h) == \E i \in 1..Len(lockLog) : lockLog[i] = h

\* the place of handler h in the order of lock acquisitions
Pos(h) == CHOOSE i \in 1..Len(lockLog) : lockLog[i] = h

\* handler h has a decoded request with operation op
Decoded(h, op) == pc[h] \notin {"idle", "read"} /\ hmsg[h].ok /\ hmsg[h].op = op

\* handler h's request writes or deletes key k when it is processed
Affects(h, k) ==
    \/ Decoded(h, "StringSet") /\ hmsg[h].args[1] = k
    \/ Decoded(h, "StringRemove") /\ hmsg[h].args[1] = k
    \/ Decoded(h, "StringClear")

\* handler h's parse_request returned an error
ParseFailed(h) ==
    /\ pc[h] \in {"send_err", "done", "panic_write"}
    /\ ~hmsg[h].ok

\* C5: if a client received SET::OK for a request `SET::k v` (one key, one
\* value token), and a GET::k arrives on a connection made after that, and
\* no Set/Remove/Clear touching k took the lock between the two, then the
\* response the GET client receives is GET::v.
C5_ReadYourWrites ==
    \A s \in Conns, g \in Conns :
        (/\ Decoded(s, "StringSet")
         /\ Len(hmsg[s].args) = 2
         /\ resp[s] = <<Response("StringSet", OkText)>>
         /\ s \in before[g]
         /\ Decoded(g, "StringGet")
         /\ hmsg[g].args[1] = hmsg[s].args[1]
         /\ resp[g] # <<>>
         /\ \A m \in Conns :
               (InLog(m) /\ Pos(s) < Pos(m) /\ Pos(m) < Pos(g))
                  => ~Affects(m, hmsg[s].args[1]))
        => resp[g] = <<Response("StringGet", hmsg[s].args[2])>>

\* `SET::a x` was answered OK, and a GET::a on a connection made after the
\* OK, the next to take the lock, was answered GET::x
C5_Witness ==
    \E s \in Conns, g \in Conns :
        /\ InLog(s) /\ InLog(g) /\ Pos(g) = Pos(s) + 1
        /\ hmsg[s] = MsgOk("StringSet", <<(<<"a">>), (<<"x">>)>>)
        /\ resp[s] = <<Response("StringSet", OkText)>>
        /\ s \in before[g]
        /\ hmsg[g] = MsgOk("StringGet", <<(<<"a">>)>>)
        /\ resp[g] = <<(<<"G", "E", "T", ":", ":", "x", "\n">>)>>

\* C6 (state part): a handler whose parse_request failed has called
\* send_response exactly once, with ERR and the reason parse_request gave;
\* the client receives that response and no other; the handler never took
\* the lock.
C6_ErrorReplyOnly ==
    \A h \in Conns :
        ParseFailed(h)
          => /\ hmsg[h].err \in {"InvalidFormat", "InvalidMessage"}
             /\ sends[h] = 1
             /\ ~InLog(h)
             /\ owner # h
             /\ pc[h] = "send_err" =>
                   (out[h] = Response("Error", hmsg[h].text) /\ resp[h] = <<>>)
             /\ pc[h] = "done" => resp[h] = <<Response("Error", hmsg[h].text)>>
             /\ pc[h] = "panic_write" => resp[h] = <<>>

\* C6 (step part): no step of such a handler changes the store, the files
\* or the lock.
C6_ErrorPathFrame ==
    \A h \in Conns :
        (pc'[h] # pc[h] /\ pc'[h] \in {"send_err", "done", "panic_write"}
           /\ ~hmsg'[h].ok)
          => (vault' = vault /\ disk' = disk /\ owner' = owner
                /\ lockLog' = lockLog)

C7_OneHolder ==
    /\ Cardinality({h \in Conns : pc[h] = "respond"}) <= 1
    /\ \A h \in Conns : pc[h] = "respond" <=> owner = h

\* C7 (step part): every step that reads or writes the store (each one is
\* logged in lockLog, Get included) or changes the store or the files is
\* taken by a handler that acquires the free lock in that very step.
C7_AccessUnderLock ==
    (vault' # vault \/ disk' # disk \/ lockLog' # lockLog)
      => /\ owner = 0
         /\ \E h \in Conns :
               /\ pc[h] = "lock_wait"
               /\ lockLog' = Append(lockLog, h)
               /\ pc'[h] \in {"respond", "done"}
               /\ owner' = (IF pc'[h] = "respond" THEN h ELSE 0)

\* C7: mutual exclusion of the store critical section, Get included.
C7_MutualExclusion == []C7_OneHolder /\ [][C7_AccessUnderLock]_vars

\* one handler holds the lock while writing its response to a Get and every
\* other one, its request decoded, waits for the lock
C7_Witness ==
    \E h \in Conns :
        /\ owner = h
        /\ pc[h] = "respond"
        /\ hmsg[h].op = "StringGet"
        /\ \A g \in Conns \ {h} : pc[g] = "lock_wait"

\* C8: a handler that has ended, normally or by a panic, does not hold the
\* lock; the lock is held only by a handler that is writing its response;
\* and whenever no handler is writing a response, every handler waiting for
\* the lock can take it.
C8_LockReleasedOnExit ==
    /\ \A h \in Conns : pc[h] \in EndPcs => owner # h
    /\ owner # 0 => pc[owner] = "respond"
    /\ \A h \in Conns :
          (pc[h] = "lock_wait" /\ \A g \in Conns : pc[g] # "respond")
             => ENABLED LockAndDispatch(h, "ok")

\* a handler panicked while writing its response with the lock held, and a
\* handler that took the lock after it was served
C8_Witness ==
    \E f \in Conns, l \in Conns :
        /\ InLog(f) /\ InLog(l) /\ Pos(f) < Pos(l)
        /\ pc[f] = "panic_write"
        /\ Decoded(l, "StringGet") /\ pc[l] = "done" /\ resp[l] # <<>>

\* handler h's read_from_client has returned
HasRead(h) ==
    pc[h] \in {"lock_wait", "send_err", "respond", "done", "panic_write"}

\* the text is a response with opcode ERR, closed by a newline
IsErrFrame(text) ==
    /\ Len(text) >= 6
    /\ SubSeq(text, 1, 5) = <<"E", "R", "R", ":", ":">>
    /\ text[Len(text)] = "\n"

\* C14: a Set request with a key and two or more value tokens stores under
\* the key the value tokens joined by single spaces: that is the value the
\* store holds while the Set handler still has the lock, and the value a
\* GET of the key on a later connection is answered with when no
\* Set/Remove/Clear touching the key took the lock in between.
C14_MultiWordSet ==
    /\ \A s \in Conns :
          (pc[s] = "respond" /\ Decoded(s, "StringSet")
             /\ Len(hmsg[s].args) >= 3)
            => get_string(vault, hmsg[s].args[1])
                 = Ok(JoinWith(Tail(hmsg[s].args), Space))
    /\ \A s \in Conns, g \in Conns :
          (/\ Decoded(s, "StringSet")
           /\ Len(hmsg[s].args) >= 3
           /\ resp[s] = <<Response("StringSet", OkText)>>
           /\ s \in before[g]
           /\ Decoded(g, "StringGet")
           /\ hmsg[g].args[1] = hmsg[s].args[1]
           /\ resp[g] # <<>>
           /\ \A m \in Conns :
                 (InLog(m) /\ Pos(s) < Pos(m) /\ Pos(m) < Pos(g))
                    => ~Affects(m, hmsg[s].args[1]))
          => resp[g] = <<Response("StringGet",
                                  JoinWith(Tail(hmsg[s].args), Space))>>

\* C15: an Incr or Decr request on key k is answered, with the lock held,
\* by a response with its own opcode carrying the value now stored under
\* k; an INCR of a key on an empty store stores 1 and answers INCR::1, and
\* an INCR of the same key right after it stores 2 and answers INCR::2
\* (DECR on an empty store: -1).
C15_IncrDecrCount ==
    \A h \in Conns :
        (pc[h] = "respond" /\ (Decoded(h, "Incr") \/ Decoded(h, "Decr")))
          => LET k == hmsg[h].args[1]
                 first == Pos(h) = 1
                 second == /\ Pos(h) = 2
                           /\ hmsg[lockLog[1]] = hmsg[h]
             IN  /\ k \in DOMAIN get_string_store_ref(vault)
                 /\ out[h] = Response(hmsg[h].op, get_string(vault, k).val)
                 /\ (first /\ hmsg[h].op = "Incr")
                       => get_string(vault, k) = Ok(<<"1">>)
                 /\ (first /\ hmsg[h].op = "Decr")
                       => get_string(vault, k) = Ok(<<"-", "1">>)
                 /\ (second /\ hmsg[h].op = "Incr")
                       => get_string(vault, k) = Ok(<<"2">>)

DumpOkText == <<"D", "U", "M", "P", ":", ":", "O", "K", "\n">>

\* C16 (state part): a handler whose dump_store returned Ok sends exactly
\* one response, DUMP::OK; while it still holds the lock the file at the
\* requested path reads back, through from_str, as the store.
C16_DumpAnswered ==
    \A h \in Conns :
        dumpret[h] = "ok"
          => /\ Decoded(h, "Dump")
             /\ sends[h] = 1
             /\ pc[h] \in {"respond", "done", "panic_write"}
             /\ pc[h] = "respond"
                   => /\ out[h] = DumpOkText
                      /\ FileAt(disk, hmsg[h].args[1]).exists
                      /\ from_str(FileAt(disk, hmsg[h].args[1]).text)
                           = [ok |-> TRUE, store |-> vault]
             /\ pc[h] = "done" => resp[h] = <<DumpOkText>>

\* C16 (step part): the step in which dump_store returns Ok leaves the
\* store as it was, writes no other file, and the file written reads back
\* as exactly the store the handler found when it took the lock.
C16_DumpStep ==
    \A h \in Conns :
        (dumpret[h] = "none" /\ dumpret'[h] = "ok")
          => LET path == hmsg[h].args[1]
             IN  /\ vault' = vault
                 /\ owner = 0 /\ owner' = h
                 /\ path \in DOMAIN disk'
                 /\ \A q \in DOMAIN disk' \ {path} :
                       q \in DOMAIN disk /\ disk'[q] = disk[q]
                 /\ from_str(disk'[path]) = [ok |-> TRUE, store |-> vault]

\* C16: a successful Dump answers DUMP::OK, leaves the store unchanged and
\* leaves at the given path a file that deserializes to exactly the store
\* contents the handler held the lock on.
C16_DumpWritesStore == []C16_DumpAnswered /\ [][C16_DumpStep]_vars

\* after `SET::a x`, a DUMP::p was answered DUMP::OK and the file p reads
\* back as the store holding a -> x
C16_Witness ==
    \E h \in Conns :
        /\ dumpret[h] = "ok"
        /\ pc[h] = "done"
        /\ resp[h] = <<DumpOkText>>
        /\ vault.strings = MapPut(EmptyMap, <<"a">>, <<"x">>)
        /\ from_str(FileAt(disk, <<"p">>).text) = [ok |-> TRUE, store |-> vault]

\* C17: a handler whose dump_store returned an I/O error calls
\* send_response once, with an ERR response; when the handler has returned
\* the client has received that response -- it is never left with a closed
\* connection and no response.
C17_DumpFailureAnswered ==
    \A h \in Conns :
        dumpret[h] = "err"
          => /\ sends[h] = 1
             /\ pc[h] = "respond" => IsErrFrame(out[h])
             /\ pc[h] = "done"
                   => (Len(resp[h]) = 1 /\ IsErrFrame(resp[h][1]))

(***************************************************************************)
(* Decoding a request: a text handed to the codec, or a text sent to the   *)
(* server                                                                  *)
(***************************************************************************)
DecodeInit == CodecInit \/ ServerInit

ServerStep == CodecIdle /\ ServerNext

DecodeNext == CodecNext \/ ServerStep

SpecDecode == DecodeInit /\ [][DecodeNext]_vars

\* C11: a request text without the `::` delimiter (one segment when split
\* on it; the empty text and a bare recognised opcode included) is refused
\* by parse_request as InvalidFormat.  A handler that read such a text
\* calls send_response once, with an ERR response, and takes no other
\* path; when that write completes the client has received exactly that
\* ERR response.
C11_UnframedIsInvalidFormat ==
    /\ (pphase = "parsed" /\ ~Framed(input))
          => (~presult.ok /\ presult.err = "InvalidFormat")
    /\ \A h \in Conns :
          (HasRead(h) /\ ~Framed(hreq[h]))
            => /\ ~hmsg[h].ok
               /\ hmsg[h].err = "InvalidFormat"
               /\ pc[h] \in {"send_err", "done", "panic_write"}
               /\ sends[h] = 1
               /\ pc[h] = "send_err" => IsErrFrame(out[h])
               /\ pc[h] = "done"
                     => (Len(resp[h]) = 1 /\ IsErrFrame(resp[h][1]))

\* the bare opcode `GET` was sent to the server, refused as InvalidFormat
\* and answered with ERR
C11_Witness ==
    \E h \in Conns :
        /\ hreq[h] = <<"G", "E", "T">>
        /\ hmsg[h] = MsgErr("InvalidFormat",
                            <<"not enough arguments for operation">>)
        /\ pc[h] = "done"
        /\ resp[h] = <<(<<"E", "R", "R", ":", ":",
                          "not enough arguments for operation", "\n">>)>>

(***************************************************************************)
(* The codec round trip: a message is encoded by create_request and the    *)
(* text decoded by parse_request                                           *)
(***************************************************************************)
\* number of arguments of a message
MaxValue == 4

MaxArgs == 3

\* arguments as parse_request itself would deliver them: no space and no
\* delimiter inside
ArgTokens == {<<"a">>, <<"b">>, <<"a", "b">>}

ArgLists == UNION {[1..n -> ArgTokens] : n \in 0..MaxArgs}

RoundTripInit ==
    /\ cop \in Operations
    /\ cargs \in ArgLists
    /\ input = <<>>
    /\ pphase = "message"
    /\ presult = NoResult
    /\ rresult = <<>>
    /\ StoreIdle
    /\ ServerIdle
    /\ PersistIdle

CreateRequest ==
    /\ pphase = "message"
    /\ input' = create_request(cop, cargs)
    /\ pphase' = "input"
    /\ UNCHANGED <<presult, rresult, cop, cargs, storeVars, serverVars,
                   persistVars>>

RoundTripNext == CreateRequest \/ ParseRequest

SpecRoundTrip == RoundTripInit /\ [][RoundTripNext]_vars

\* the arity rule the codec is specified with: Set at least 2 arguments,
\* Get/Remove/Incr/Decr/Dump exactly 1, Clear/Noop none
RuleArity(op, n) ==
    \/ op = "StringSet" /\ n >= 2
    \/ op \in OneArgOps /\ n = 1
    \/ op \in {"StringClear", "Noop"} /\ n = 0

\* C12: for every operation and arguments that satisfy the operation's
\* arity rule (Clear and Noop with no arguments included), decoding the
\* encoded request succeeds and returns that operation and exactly those
\* arguments.
C12_RoundTrip ==
    (pphase = "parsed" /\ input = create_request(cop, cargs)
       /\ RuleArity(cop, Len(cargs)))
      => (presult.ok /\ presult.op = cop /\ presult.args = cargs)

(***************************************************************************)
(* PersistentStore (store/persistence/mod.rs) over load_store and          *)
(* write_store (store/persistence/file_handling.rs).  Each operator takes  *)
(* the wrapper and the snapshot file and yields both after the call.       *)
(***************************************************************************)
NewOutcomes == {"ok", "dir_err"}

\* OpenOptions::open fails; or it succeeds (creating the file when there is
\* none) and read_to_string then succeeds or fails
LoadOutcomes == {"ok", "open_err", "read_err"}

load_store(file, outcome) ==
    LET opened == IF file.exists THEN file ELSE FileWith(<<>>)
    IN  CASE outcome = "open_err" ->
                [file |-> file, ret |-> IoErr, contents |-> <<>>]
          [] outcome = "read_err" ->
                [file |-> opened, ret |-> IoErr, contents |-> <<>>]
          [] outcome = "ok" ->
                [file |-> opened, ret |-> OkUnit, contents |-> opened.text]

ps_new_WriteOnUpdate(outcome) ==
    IF outcome = "ok"
    THEN [pst |-> [alive |-> TRUE, store |-> MemStoreNew,
                   write_on_update |-> TRUE],
          ret |-> "Ok", err |-> "none"]
    ELSE [pst |-> NoStore, ret |-> "Err", err |-> "io"]

\* PersistentStore::new: the directory is created, no file is touched
ps_new(outcome) ==
    IF outcome = "ok"
    THEN [pst |-> [alive |-> TRUE, store |-> MemStoreNew,
                   write_on_update |-> FALSE],
          ret |-> "Ok", err |-> "none"]
    ELSE [pst |-> NoStore, ret |-> "Err", err |-> "io"]

load_AlwaysParses(p, file, outcome) ==
    LET r == load_store(file, outcome)
        v == from_str(r.contents)
    IN  IF ~r.ret.ok
        THEN [pst |-> p, file |-> r.file, ret |-> "Err", err |-> "io"]
        ELSE IF ~v.ok
        THEN [pst |-> p, file |-> r.file, ret |-> "Err", err |-> "parse"]
        ELSE [pst |-> [p EXCEPT !.store.strings = v.store.strings],
              file |-> r.file, ret |-> "Ok", err |-> "none"]

\* PersistentStore::load
load(p, file, outcome) ==
    LET r == load_store(file, outcome)
        v == from_str(r.contents)
    IN  IF ~r.ret.ok
        THEN [pst |-> p, file |-> r.file, ret |-> "Err", err |-> "io"]
        ELSE IF r.contents = <<>>
        THEN [pst |-> p, file |-> r.file, ret |-> "Ok", err |-> "none"]
        ELSE IF ~v.ok
        THEN [pst |-> p, file |-> r.file, ret |-> "Err", err |-> "parse"]
        ELSE [pst |-> [p EXCEPT !.store.strings = v.store.strings],
              file |-> r.file, ret |-> "Ok", err |-> "none"]

\* Result::expect on the result of load(): a panic when it is an error
expect(l) ==
    IF l.ret # "Ok"
    THEN [pst |-> NoStore, file |-> l.file, ret |-> "panic", err |-> l.err]
    ELSE [pst |-> l.pst, file |-> l.file, ret |-> "Ok", err |-> "none"]

from_existing_RejectsEmpty(file, newOutcome, loadOutcome) ==
    IF ps_new(newOutcome).ret # "Ok"
    THEN [pst |-> NoStore, file |-> file, ret |-> "Err", err |-> "io"]
    ELSE IF file.exists /\ file.text = <<>>
    THEN [pst |-> NoStore, file |-> file, ret |-> "Err", err |-> "parse"]
    ELSE expect(load(ps_new(newOutcome).pst, file, loadOutcome))

\* PersistentStore::from_existing: new(..)?, then load().expect(..)
from_existing(file, newOutcome, loadOutcome) ==
    IF ps_new(newOutcome).ret # "Ok"
    THEN [pst |-> NoStore, file |-> file, ret |-> "Err", err |-> "io"]
    ELSE expect(load(ps_new(newOutcome).pst, file, loadOutcome))

\* PersistentStore::from_store
from_store(memstore, newOutcome) ==
    LET n == ps_new(newOutcome)
    IN  IF n.ret # "Ok" THEN n
        ELSE [n EXCEPT !.pst.store = memstore]

\* what one call of write_store can do to the file
WriteResults(store, file) ==
    UNION {{[kind |-> w, r |-> write_store(store, file, w, o, n)] :
              n \in (IF w = "write_err"
                     THEN PartialWrites(to_string_pretty(store, o))
                     ELSE {0})} :
           w \in DumpOutcomes, o \in KeyOrders(store.strings)}

\* PersistentStore::write: the outcomes of write_store(&path, &self.store)
ps_write(p, file) == WriteResults(p.store, file)

NotWritten(file) == {[kind |-> "none", r |-> [file |-> file, ret |-> OkUnit]]}

ps_insert_string_NeverWrites(p, file, key, value) ==
    LET q == [p EXCEPT !.store = insert_string(p.store, key, value).store]
    IN  [pst |-> q, writes |-> NotWritten(file)]

\* PersistentStore::insert_string: the store after the insert and, when
\* write_on_update is set, the outcomes of the write() that follows
ps_insert_string(p, file, key, value) ==
    LET q == [p EXCEPT !.store = insert_string(p.store, key, value).store]
    IN  [pst |-> q,
         writes |-> IF p.write_on_update THEN ps_write(q, file)
                    ELSE NotWritten(file)]

\* PersistentStore::remove_string
ps_remove_string(p, file, key) ==
    LET r == remove_string(p.store, key)
        q == [p EXCEPT !.store = r.store]
    IN  [pst |-> q, val |-> r.ret.val,
         writes |-> IF p.write_on_update THEN ps_write(q, file)
                    ELSE NotWritten(file)]

ps_clear_strings_KeepsStore(p, file) ==
    [pst |-> p,
     writes |-> IF p.write_on_update THEN ps_write(p, file)
                ELSE NotWritten(file)]

\* PersistentStore::clear_strings
ps_clear_strings(p, file) ==
    LET q == [p EXCEPT !.store = clear_strings(p.store).store]
    IN  [pst |-> q,
         writes |-> IF p.write_on_update THEN ps_write(q, file)
                    ELSE NotWritten(file)]

set_write_on_update_Clears(p, set) ==
    [p EXCEPT !.write_on_update = set, !.store = MemStoreNew]

\* PersistentStore::set_write_on_update
set_write_on_update(p, set) == [p EXCEPT !.write_on_update = set]

\* the record of the last saved content after one write_store
Flushed(fl, store, w) ==
    CASE w.kind = "ok" ->
            [some |-> TRUE, store |-> store, intact |-> TRUE, cut |-> "no"]
      [] w.kind = "write_err" -> [fl EXCEPT !.intact = FALSE, !.cut = "error"]
      [] OTHER -> fl

RetOf(w) == IF w.r.ret.ok THEN "Ok" ELSE "Err"

ErrOf(w) == IF w.r.ret.ok THEN "none" ELSE "io"

(***************************************************************************)
(* The persistence wrapper as a machine: one storage location, at most one *)
(* PersistentStore alive at a time                                         *)
(***************************************************************************)
PersistKeys == {<<"a">>, <<"b">>}

\* a plain value, and one that needs escaping in JSON
PersistVals == {<<"x">>, <<DQ, BS>>}

\* the MemStore handed to from_store
SeedStores == {MemStoreNew, [strings |-> MapPut(EmptyMap, <<"a">>, <<"x">>)]}

PersistInit ==
    /\ PersistIdle
    /\ StoreIdle
    /\ CodecIdle
    /\ ServerIdle

PNew(o) ==
    /\ ~pst.alive
    /\ \E n \in {ps_new(o)} :
           /\ pst' = n.pst
           /\ dir' = (dir \/ n.ret = "Ok")
           /\ pcall' = PCall("new", n.ret, n.err)
    /\ UNCHANGED <<snap, flushed, storeVars, codecVars, serverVars>>

PFromExisting(o, l) ==
    /\ ~pst.alive
    /\ \E n \in {from_existing(snap, o, l)} :
           /\ pst' = n.pst
           /\ snap' = n.file
           /\ dir' = (dir \/ o = "ok")
           /\ pcall' = PCall("from_existing", n.ret, n.err)
    /\ UNCHANGED <<flushed, storeVars, codecVars, serverVars>>

PFromStore(memstore, o) ==
    /\ ~pst.alive
    /\ \E n \in {from_store(memstore, o)} :
           /\ pst' = n.pst
           /\ dir' = (dir \/ n.ret = "Ok")
           /\ pcall' = PCall("from_store", n.ret, n.err)
    /\ UNCHANGED <<snap, flushed, storeVars, codecVars, serverVars>>

PInsert(k, v) ==
    /\ pst.alive
    /\ \E c \in {ps_insert_string(pst, snap, k, v)} : \E w \in c.writes :
           /\ pst' = c.pst
           /\ snap' = w.r.file
           /\ flushed' = Flushed(flushed, c.pst.store, w)
           /\ pcall' = PCall("insert", RetOf(w), ErrOf(w))
    /\ UNCHANGED <<dir, storeVars, codecVars, serverVars>>

PRemove(k) ==
    /\ pst.alive
    /\ \E c \in {ps_remove_string(pst, snap, k)} : \E w \in c.writes :
           /\ pst' = c.pst
           /\ snap' = w.r.file
           /\ flushed' = Flushed(flushed, c.pst.store, w)
           /\ pcall' = PCall("remove", RetOf(w), ErrOf(w))
    /\ UNCHANGED <<dir, storeVars, codecVars, serverVars>>

PClear ==
    /\ pst.alive
    /\ \E c \in {ps_clear_strings(pst, snap)} : \E w \in c.writes :
           /\ pst' = c.pst
           /\ snap' = w.r.file
           /\ flushed' = Flushed(flushed, c.pst.store, w)
           /\ pcall' = PCall("clear", RetOf(w), ErrOf(w))
    /\ UNCHANGED <<dir, storeVars, codecVars, serverVars>>

PSetWriteOnUpdate(set) ==
    /\ pst.alive
    /\ pst' = set_write_on_update(pst, set)
    /\ pcall' = PCall("set_write_on_update", "Ok", "none")
    /\ UNCHANGED <<dir, snap, flushed, storeVars, codecVars, serverVars>>

PWrite ==
    /\ pst.alive
    /\ \E w \in ps_write(pst, snap) :
           /\ snap' = w.r.file
           /\ flushed' = Flushed(flushed, pst.store, w)
           /\ pcall' = PCall("write", RetOf(w), ErrOf(w))
    /\ UNCHANGED <<dir, pst, storeVars, codecVars, serverVars>>

\* the PersistentStore goes out of scope; Drop writes nothing
PDrop ==
    /\ pst.alive
    /\ pst' = NoStore
    /\ pcall' = PCall("drop", "Ok", "none")
    /\ UNCHANGED <<dir, snap, flushed, storeVars, codecVars, serverVars>>

write_store_cut_Atomic(store, file, order, written) == file

\* write_store cut short by the death of the process: File::create has
\* truncated the file and write_all has written only the first bytes
write_store_cut(store, file, order, written) ==
    FileWith(SubSeq(to_string_pretty(store, order), 1, written))

\* the stores a write_store call may be saving when the process dies: the
\* current one (write()) and, with write_on_update set, the one a mutating
\* call has just produced
InFlight(p) ==
    {p.store} \cup
    (IF p.write_on_update
     THEN {insert_string(p.store, k, v).store :
               k \in PersistKeys, v \in PersistVals}
          \cup {remove_string(p.store, k).store : k \in PersistKeys}
          \cup {clear_strings(p.store).store}
     ELSE {})

\* the process dies outside write_store: the memory is lost, the file stays.
\* pst keeps, with alive FALSE, the flag the store had when the process died
PCrash ==
    /\ pst.alive
    /\ pst' = [NoStore EXCEPT !.write_on_update = pst.write_on_update]
    /\ pcall' = PCall("crash", "none", "none")
    /\ UNCHANGED <<dir, snap, flushed, storeVars, codecVars, serverVars>>

\* the process dies inside write_store, after File::create has truncated the
\* file and before write_all has written the last byte
PCrashInWrite(store) ==
    /\ pst.alive
    /\ \E o \in KeyOrders(store.strings) :
       \E n \in PartialWrites(to_string_pretty(store, o)) :
           /\ snap' = write_store_cut(store, snap, o, n)
           /\ flushed' = [flushed EXCEPT !.intact = FALSE, !.cut = "crash"]
    /\ pst' = [NoStore EXCEPT !.write_on_update = pst.write_on_update]
    /\ pcall' = PCall("crash_write", "none", "none")
    /\ UNCHANGED <<dir, storeVars, codecVars, serverVars>>

PersistNext ==
    \/ \E o \in NewOutcomes : PNew(o)
    \/ \E o \in NewOutcomes, l \in LoadOutcomes : PFromExisting(o, l)
    \/ \E memstore \in SeedStores, o \in NewOutcomes : PFromStore(memstore, o)
    \/ \E k \in PersistKeys, v \in PersistVals : PInsert(k, v)
    \/ \E k \in PersistKeys : PRemove(k)
    \/ PClear
    \/ \E set \in BOOLEAN : PSetWriteOnUpdate(set)
    \/ PWrite
    \/ PDrop
    \/ PCrash
    \/ \E store \in InFlight(pst) : PCrashInWrite(store)

SpecPersist == PersistInit /\ [][PersistNext]_vars

(***************************************************************************)
(* Claims about the persistence wrapper                                    *)
(***************************************************************************)
\* the step is one call of insert_string, remove_string or clear_strings
MutatingCall == pcall'.op \in {"insert", "remove", "clear"}

\* the change the call asked the MemStore for is in the store afterwards
ChangeApplied ==
    CASE pcall'.op = "insert" ->
            \E k \in PersistKeys, v \in PersistVals :
                pst'.store.strings = MapPut(pst.store.strings, k, v)
      [] pcall'.op = "remove" ->
            \E k \in PersistKeys :
                pst'.store.strings = MapDel(pst.store.strings, k)
      [] pcall'.op = "clear" -> pst'.store.strings = EmptyMap

\* the snapshot file holds a text that deserializes to the store
SnapshotOf(file, store) ==
    file.exists /\ from_str(file.text) = [ok |-> TRUE, store |-> store]

C18_FlushStep ==
    MutatingCall =>
        /\ pst'.alive
        /\ pst'.write_on_update = pst.write_on_update
        /\ ChangeApplied
        /\ ~pst.write_on_update =>
              snap' = snap /\ flushed' = flushed /\ pcall'.ret = "Ok"
        /\ pst.write_on_update /\ pcall'.ret = "Ok" =>
              SnapshotOf(snap', pst'.store)
        /\ pst.write_on_update /\ pcall'.ret # "Ok" => pcall'.err = "io"

\* C18: insert/remove/clear apply the change to the in-memory store whatever
\* happens next; with write_on_update unset the call never fails and leaves
\* the snapshot file as it was (absent or unchanged); with it set the call
\* runs write(): if it returns Ok the snapshot file exists and deserializes
\* to the in-memory store, and if it fails the error is the write's I/O error
C18_FlushPolicy == [][C18_FlushStep]_vars

C18_Witness ==
    /\ pcall.op = "insert"
    /\ pcall.ret = "Ok"
    /\ pst.write_on_update
    /\ DOMAIN pst.store.strings = PersistKeys
    /\ pst.store.strings[<<"b">>] = <<DQ, BS>>
    /\ SnapshotOf(snap, pst.store)

\* C19: when the snapshot file holds what the last successful write() put
\* there, from_existing on that location (a fresh store, then load()) never
\* fails to parse it, and when it returns the new store has exactly the
\* key-value map that was written
C19_SnapshotRoundTrip ==
    (pcall.op = "from_existing" /\ flushed.some /\ flushed.intact) =>
        /\ pcall.err # "parse"
        /\ pcall.ret = "Ok" =>
              pst.alive /\ pst.store.strings = flushed.store.strings

C19_Witness ==
    /\ pcall.op = "from_existing"
    /\ pcall.ret = "Ok"
    /\ flushed.some /\ flushed.intact
    /\ DOMAIN flushed.store.strings = PersistKeys
    /\ flushed.store.strings[<<"a">>] = <<DQ, BS>>
    /\ pst.store.strings = flushed.store.strings

\* what load() makes of the file: empty content is an empty store
Deserialized(file) ==
    IF file.text = <<>> THEN [ok |-> TRUE, store |-> MemStoreNew]
    ELSE from_str(file.text)

\* the store as of the last successful write(), empty when there was none
LastFlushed == IF flushed.some THEN flushed.store ELSE MemStoreNew

\* C20: whenever the snapshot file exists, and no crash has cut a write of
\* it short, it deserializes to the store content as of the last successful
\* write()
C20_SnapshotInvariant ==
    (snap.exists /\ flushed.cut # "crash") =>
        Deserialized(snap) = [ok |-> TRUE, store |-> LastFlushed]

\* the snapshot file is missing or has no content
MissingOrEmpty(file) == ~file.exists \/ file.text = <<>>

\* load() on the current location, when open and read succeed
C21_LoadHere ==
    MissingOrEmpty(snap) =>
        LET l == load(ps_new("ok").pst, snap, "ok")
        IN  l.ret = "Ok" /\ l.err = "none" /\ l.pst.store = MemStoreNew

\* a from_existing call on such a location
C21_LoadStep ==
    (pcall'.op = "from_existing" /\ MissingOrEmpty(snap)) =>
        /\ pcall'.err # "parse"
        /\ pcall'.ret = "Ok" => pst'.alive /\ pst'.store = MemStoreNew
        /\ pcall'.ret # "Ok" => pcall'.err = "io" /\ ~pst'.alive

\* C21: on a location whose snapshot file is missing or empty, load()
\* returns Ok and the store stays empty whenever the file can be opened and
\* read; from_existing there never meets a parse error: it yields an empty
\* store unless creating the directory, opening or reading fails with an
\* I/O error
C21_MissingOrEmptyLoads == []C21_LoadHere /\ [][C21_LoadStep]_vars

C21_Witness ==
    /\ pcall.op = "from_existing"
    /\ pcall.ret = "Ok"
    /\ ~flushed.some
    /\ snap = FileWith(<<>>)
    /\ pst.alive
    /\ pst.store = MemStoreNew

\* C22: from_existing over a snapshot whose non-empty content does not
\* parse hands the caller an error value (Err), and no store is produced
C22_CorruptIsReturnedError ==
    (pcall.op = "from_existing" /\ pcall.err = "parse") =>
        pcall.ret = "Err" /\ ~pst.alive

\* a PersistentStore just constructed around the MemStore store
Ready(store) ==
    [pst |-> [alive |-> TRUE, store |-> store, write_on_update |-> FALSE],
     ret |-> "Ok", err |-> "none"]

\* what the two constructors return when the directory can be created
C23_Constructed ==
    /\ ps_new("ok") = Ready(MemStoreNew)
    /\ \A seed \in SeedStores : from_store(seed, "ok") = Ready(seed)

\* a call of new or from_store
C23_ConstructStep ==
    pcall'.op \in {"new", "from_store"} =>
        /\ snap' = snap
        /\ flushed' = flushed
        /\ pcall'.ret = "Ok" =>
              /\ dir'
              /\ pst'.alive /\ ~pst'.write_on_update
              /\ pcall'.op = "new" => pst'.store = MemStoreNew
              /\ pcall'.op = "from_store" => pst'.store \in SeedStores
        /\ pcall'.ret # "Ok" =>
              pcall'.err = "io" /\ ~pst'.alive /\ dir' = dir

\* during the life of a store, the snapshot file appears only in write(),
\* run to its end or cut short by a crash
C23_AppearsOnWrite ==
    (pst.alive /\ ~snap.exists /\ snap'.exists) =>
        \/ pcall'.op \in {"write", "crash_write"}
        \/ pcall'.op \in {"insert", "remove", "clear"} /\ pst.write_on_update

\* C23: new creates the directory and yields an empty store, from_store a
\* store equal to the seed, both with write_on_update = false; neither
\* creates or changes the snapshot file, which for a store so constructed
\* appears only when write() runs (directly or through write_on_update)
C23_Construction ==
    []C23_Constructed /\ [][C23_ConstructStep /\ C23_AppearsOnWrite]_vars

C23_Witness ==
    /\ pcall.op = "from_store"
    /\ pcall.ret = "Ok"
    /\ dir
    /\ ~snap.exists
    /\ pst = Ready([strings |-> MapPut(EmptyMap, <<"a">>, <<"x">>)]).pst

(***************************************************************************)
(* Claims about the handler's phases and the accept loop                   *)
(***************************************************************************)
\* handler h has taken the lock at some time, or holds it
TookLock(h) == owner = h \/ InLog(h)

\* whoever holds or has held the lock has its request read and decoded
C25_Held ==
    \A h \in Conns :
        TookLock(h) =>
            /\ HasRead(h)
            /\ hmsg[h].ok
            /\ hmsg[h] = parse_request(hreq[h])

\* the lock is taken by a handler whose read and decoding are done
C25_Acquire ==
    \A h \in Conns :
        (TookLock(h)' /\ ~TookLock(h)) =>
            /\ pc[h] = "lock_wait"
            /\ hreq'[h] = hreq[h]
            /\ hmsg'[h] = hmsg[h]
            /\ hmsg[h].ok

\* C25: a handler takes the store lock only after read_from_client has
\* returned and parse_request has accepted the text: no handler that is
\* still waiting for request bytes holds, or has ever held, the lock
C25_LockAfterRead == []C25_Held /\ [][C25_Acquire]_vars

\* one handler holds the lock, its request read and decoded, while another
\* one is still waiting for its client's bytes
C25_Witness ==
    \E h \in Conns, g \in Conns :
        /\ owner = h
        /\ pc[h] = "respond"
        /\ hmsg[h] = parse_request(hreq[h]) /\ hmsg[h].ok
        /\ pc[g] = "read"
        /\ ~TookLock(g)

\* the number of times handler h has taken the lock
Acquisitions(h) == Cardinality({i \in 1..Len(lockLog) : lockLog[i] = h})

\* at most one response, one send_response call and one store access each
C26_AtMostOne ==
    \A h \in Conns :
        /\ sends[h] <= 1
        /\ Len(resp[h]) <= 1
        /\ Acquisitions(h) <= 1
        /\ pc[h] \in {"idle", "read", "panic_peer", "panic_read", "dropped"}
              => hreq[h] = <<>> /\ ~hmsg[h].ok /\ sends[h] = 0 /\ ~InLog(h)

\* one read per handler, nothing after it has ended, and the store and the
\* files change only in the one step in which a handler takes the lock
C26_OnePass ==
    /\ \A h \in Conns :
          /\ (hreq'[h] # hreq[h] \/ hmsg'[h] # hmsg[h])
                => pc[h] = "read" /\ pc'[h] \in {"lock_wait", "send_err"}
          /\ pc[h] \notin {"idle", "read"} => pc'[h] # "read"
          /\ pc[h] \in EndPcs =>
                /\ pc'[h] = pc[h]
                /\ resp'[h] = resp[h]
                /\ sends'[h] = sends[h]
                /\ Acquisitions(h)' = Acquisitions(h)
    /\ (vault' # vault \/ disk' # disk) => Len(lockLog') = Len(lockLog) + 1

\* C26: a handler reads once, takes the lock at most once (the only step in
\* which the store can change), calls send_response at most once, and once it
\* has ended nothing more happens on its connection
C26_OneRequestPerConnection == []C26_AtMostOne /\ [][C26_OnePass]_vars

\* every connection has been served: one response each, one lock
\* acquisition each, and the first one's Set is in the store
C26_Witness ==
    /\ \A h \in Conns :
          pc[h] = "done" /\ Len(resp[h]) = 1 /\ sends[h] = 1
            /\ Acquisitions(h) = 1
    /\ Decoded(lockLog[1], "StringSet")
    /\ vault # MemStoreNew

\* the step is a failure tied to one connection: a panic in its handler, or
\* the connection dropped because its peer address could not be obtained
ConnectionFailure ==
    \E h \in Conns :
        /\ pc'[h] # pc[h]
        /\ pc'[h] \in {"panic_peer", "panic_read", "panic_write", "dropped"}

\* C27: no failure tied to one connection makes start() leave its accept
\* loop
C27_AcceptorSurvives ==
    [][ConnectionFailure => (listening' = listening)]_vars

\* the textual codes of the opcode vocabulary
Vocabulary == {OpCode(op) : op \in Operations}

\* the opcode of a framed request is NOOP, or is no code of the vocabulary
\* (upper and lower case letters taken as the same)
NoopOrUnknown(req) ==
    /\ Framed(req)
    /\ \/ to_uppercase(OpText(req)) = OpCode("Noop")
       \/ to_uppercase(OpText(req)) \notin Vocabulary

\* C28: a request whose opcode is Noop or is not in the opcode vocabulary
\* does not reach the store and, once its handler has returned, its client
\* has received NOOP::nothing to do
C28_NoopAnswered ==
    \A h \in Conns :
        (HasRead(h) /\ NoopOrUnknown(hreq[h])) =>
            /\ pc[h] = "done" => resp[h] = <<Response("Noop", NoopText)>>
            /\ ~Affects(h, <<"a">>)

(***************************************************************************)
(* Claims about the dispatch of Get, Remove and Clear                      *)
(***************************************************************************)
\* the value the map holds for key, the empty string when it holds none
ValueAt(map, key) == IF key \in DOMAIN map THEN map[key] ELSE EmptyStr

\* the response text with the code of operation op and the given payload
Answer(op, payload) == OpCode(op) \o <<":", ":">> \o payload \o <<"\n">>

\* what the storage engine is asked for by message, and the payload due
Engine(message, map) ==
    CASE message.op = "StringGet" ->
            [map |-> map, payload |-> ValueAt(map, message.args[1])]
      [] message.op = "StringRemove" ->
            [map |-> [k \in DOMAIN map \ {message.args[1]} |-> map[k]],
             payload |-> ValueAt(map, message.args[1])]
      [] message.op = "StringClear" ->
            [map |-> [k \in {} |-> EmptyStr], payload |-> <<"O", "K">>]

\* handler h takes the lock in this step
Acquires(h) == lockLog' = Append(lockLog, h)

C30_DispatchStep ==
    \A h \in Conns :
        (Acquires(h)
           /\ hmsg[h].op \in {"StringGet", "StringRemove", "StringClear"}) =>
            /\ vault'.strings = Engine(hmsg[h], vault.strings).map
            /\ disk' = disk
            /\ pc'[h] = "respond"
            /\ out'[h] = Answer(hmsg[h].op,
                                Engine(hmsg[h], vault.strings).payload)

\* what a client has received is what its handler was writing
C30_Delivered ==
    \A h \in Conns :
        (resp'[h] # resp[h]) => resp'[h] = <<out[h]>> /\ vault' = vault

\* C30: for a decoded Get, Remove or Clear the handler leaves the store as
\* the storage engine's get, remove or clear leaves the store it found on
\* taking the lock, and answers with the request's opcode and the stored
\* value, the removed value (both empty when the key is absent) or OK; that
\* answer is what the client receives
C30_DispatchRefinesEngine == [][C30_DispatchStep /\ C30_Delivered]_vars

\* a Remove of a key set before was answered with the value it removed
C30_Witness ==
    \E h \in Conns :
        /\ pc[h] = "done"
        /\ Decoded(h, "StringRemove")
        /\ resp[h] = <<(<<"R", "M", ":", ":", "x", "\n">>)>>
        /\ get_string_store_ref(vault) = EmptyMap
        /\ Len(lockLog) = 2 /\ lockLog[2] = h

(***************************************************************************)
(* Claims about the opcode vocabulary                                      *)
(***************************************************************************)
\* the codes of the wire protocol, operation by operation
CodeTable ==
    [op \in Operations |->
        CASE op = "StringSet" -> <<"S", "E", "T">>
          [] op = "StringGet" -> <<"G", "E", "T">>
          [] op = "StringRemove" -> <<"R", "M">>
          [] op = "StringClear" -> <<"C", "L", "R">>
          [] op = "Incr" -> <<"I", "N", "C", "R">>
          [] op = "Decr" -> <<"D", "E", "C", "R">>
          [] op = "Dump" -> <<"D", "U", "M", "P">>
          [] op = "Noop" -> <<"N", "O", "O", "P">>
          [] op = "Error" -> <<"E", "R", "R">>]

\* C29: each of the nine operations is written as its code of the wire
\* protocol, parsing that code gives the operation back, and two different
\* operations never have the same code; so the request built for an
\* operation starts with its code, and a request that parse_request accepts
\* decodes to the operation it was built for
C29_OpcodeBijection ==
    /\ Cardinality(Operations) = 9
    /\ \A op \in Operations :
          OpCode(op) = CodeTable[op] /\ from_string(OpCode(op)) = op
    /\ \A p \in Operations, q \in Operations :
          OpCode(p) = OpCode(q) => p = q
    /\ pphase \in {"input", "parsed"} =>
          /\ Framed(input)
          /\ OpText(input) = CodeTable[cop]
          /\ from_string(OpText(input)) = cop
    /\ (pphase = "parsed" /\ presult.ok) => presult.op = cop

C29_Witness ==
    /\ pphase = "parsed"
    /\ cop = "StringRemove"
    /\ OpText(input) = <<"R", "M">>
    /\ presult.ok
    /\ presult.op = "StringRemove"

(***************************************************************************)
(* The server with one stalled client.  Tasks spawned on the runtime are   *)
(* scheduled fairly: a handler whose lock() can complete takes the lock.   *)
(* A read or a write completes (or fails) when the client on the other end *)
(* sends or takes bytes; the client of the first connection may never do   *)
(* either, every other client does.                                        *)
(***************************************************************************)
StalledConn == CHOOSE h \in Conns : \A g \in Conns : h <= g

\* handler h's pending read completes
ReadCompletes(h) ==
    \/ HandlerReadFails(h)
    \/ \E bytes \in ServerRequests : HandlerRead(h, bytes)

\* handler h's pending write_all completes or fails
WriteCompletes(h) ==
    \/ SendErrDone(h)
    \/ SendErrFails(h)
    \/ RespondDone(h)
    \/ RespondFails(h)

\* handler h's store.lock().await completes
LockCompletes(h) == \E outcome \in DumpOutcomes : LockAndDispatch(h, outcome)

StallFairness ==
    /\ \A h \in Conns : WF_vars(LockCompletes(h))
    /\ \A h \in Conns \ {StalledConn} :
          WF_vars(ReadCompletes(h)) /\ WF_vars(WriteCompletes(h))

SpecStall == ServerInit /\ [][ServerNext]_vars /\ StallFairness

\* C24: with the first connection's client stalled, every other handler
\* that has decoded a valid request gets the lock, so that its request is
\* applied
C24_StallIsolated ==
    \A h \in Conns \ {StalledConn} : (pc[h] = "lock_wait") ~> InLog(h)

(***************************************************************************)
(* Claims about failed writes, the flag and crashes                        *)
(***************************************************************************)
\* a mutating call made with write_on_update set whose write() fails
FailedFlush == MutatingCall /\ pst.write_on_update /\ pcall'.ret # "Ok"

\* the in-memory store and the snapshot file differ
Differ(file, store) == ~SnapshotOf(file, store)

\* C35 as stated: when write() fails inside insert, remove or clear made
\* with write_on_update set, the call returns the I/O error, the in-memory
\* change stays applied, and afterwards the in-memory store and the snapshot
\* always differ
C35_AlwaysDiffer ==
    [][FailedFlush =>
          /\ pcall'.ret = "Err" /\ pcall'.err = "io"
          /\ pst'.alive /\ ChangeApplied
          /\ Differ(snap', pst'.store)]_vars

C35_FailedStep ==
    FailedFlush =>
        /\ pcall'.ret = "Err" /\ pcall'.err = "io"
        /\ pst'.alive /\ ChangeApplied
        /\ \/ snap' = snap
           \/ snap'.exists /\ ~from_str(snap'.text).ok
        /\ \/ Differ(snap', pst'.store)
           \/ snap' = snap /\ SnapshotOf(snap, pst'.store)
        /\ (pst'.store # pst.store /\ ~Differ(snap, pst.store)) =>
              Differ(snap', pst'.store)

\* C35, amended: such a call returns the I/O error with the in-memory change
\* applied and not rolled back; the snapshot file is left untouched (the
\* file could not be created) or truncated to a text that does not parse,
\* so store and snapshot differ unless the file was left untouched and
\* already held the content the call produced; they differ whenever the
\* call changed a store that the snapshot matched
C35_NoRollback == [][C35_FailedStep]_vars

C35_Witness ==
    /\ pcall.op = "insert"
    /\ pcall.ret = "Err"
    /\ pcall.err = "io"
    /\ pst.alive /\ pst.write_on_update
    /\ pst.store.strings = MapPut(EmptyMap, <<"a">>, <<"x">>)
    /\ flushed.some /\ flushed.store = MemStoreNew /\ flushed.cut = "error"
    /\ Differ(snap, pst.store)

\* a call of set_write_on_update
C36_FlagStep ==
    pcall'.op = "set_write_on_update" =>
        /\ pst'.alive
        /\ pst'.store = pst.store
        /\ snap' = snap
        /\ flushed' = flushed
        /\ dir' = dir

\* while a store is alive the snapshot file changes only inside write():
\* called directly, or by a mutating call made with the flag set (whether
\* the write runs to its end, fails or is cut short by a crash)
C36_ReachesSnapshot ==
    (pst.alive /\ snap' # snap) =>
        \/ pcall'.op = "write"
        \/ MutatingCall /\ pst.write_on_update
        \/ pcall'.op = "crash_write"

\* C36: set_write_on_update changes only the flag and flushes nothing;
\* what was changed while the flag was false reaches the snapshot only at
\* the next mutating call made with the flag true or at an explicit
\* write(), so in between the snapshot may lag behind the store
C36_FlagOnly == [][C36_FlagStep /\ C36_ReachesSnapshot]_vars

C36_Witness ==
    /\ pcall.op = "set_write_on_update"
    /\ pst.alive /\ pst.write_on_update
    /\ DOMAIN pst.store.strings = PersistKeys
    /\ flushed.some /\ flushed.intact
    /\ flushed.store = MemStoreNew
    /\ SnapshotOf(snap, MemStoreNew)

\* text is a proper prefix of some serialization of store
CutOf(text, store) ==
    \E o \in KeyOrders(store.strings) :
        /\ Len(text) < Len(to_string_pretty(store, o))
        /\ text = SubSeq(to_string_pretty(store, o), 1, Len(text))

\* the process dies between File::create and the end of write_all
C32_CutStep ==
    pcall'.op = "crash_write" =>
        /\ ~pst'.alive
        /\ snap'.exists
        /\ \E store \in InFlight(pst) : CutOf(snap'.text, store)
        /\ ~from_str(snap'.text).ok
        /\ ~SnapshotOf(snap', LastFlushed)
        /\ \A store \in InFlight(pst) : ~SnapshotOf(snap', store)

\* C32: write() is not crash-atomic: it truncates the file and then writes,
\* and a crash between the two leaves a snapshot file that exists, is empty
\* or holds a truncated text, and deserializes neither to the previously
\* flushed content nor to the content being written
C32_NotCrashAtomic == [][C32_CutStep]_vars

C32_Witness ==
    /\ pcall.op = "crash_write"
    /\ ~pst.alive
    /\ flushed.some /\ flushed.cut = "crash"
    /\ DOMAIN flushed.store.strings = {<<"a">>}
    /\ snap.exists /\ snap.text # <<>>
    /\ ~from_str(snap.text).ok

\* the file a crash left empty right after write() truncated it
CrashEmptied == pcall.op = "crash_write" /\ snap = FileWith(<<>>)

C39_LoadHere ==
    CrashEmptied =>
        LET n == from_existing(snap, "ok", "ok")
        IN  n.ret = "Ok" /\ n.err = "none" /\ n.pst.store = MemStoreNew

C39_LoadStep ==
    (CrashEmptied /\ pcall'.op = "from_existing") =>
        /\ pcall'.err # "parse"
        /\ pcall'.ret = "Ok" => pst'.alive /\ pst'.store = MemStoreNew
        /\ pcall'.ret # "Ok" => pcall'.err = "io"

\* C39: from_existing on a snapshot file that a crash left empty right
\* after write() truncated it returns an empty store and no error (unless
\* directory, open or read fail with an I/O error): nothing tells the
\* caller that the content flushed before is lost
C39_EmptiedLoadsSilently == []C39_LoadHere /\ [][C39_LoadStep]_vars

C39_Witness ==
    /\ pcall.op = "from_existing"
    /\ pcall.ret = "Ok" /\ pcall.err = "none"
    /\ flushed.some /\ flushed.cut = "crash"
    /\ flushed.store # MemStoreNew
    /\ snap = FileWith(<<>>)
    /\ pst.alive /\ pst.store = MemStoreNew

\* C34: when the process dies with write_on_update false (outside write(),
\* and with no write() cut short by a crash before), from_existing on the
\* location yields exactly the store content as of the last successful
\* write(), empty when there was none: it meets no parse error, and the
\* store it returns holds that content
C34_CrashKeepsLastWrite ==
    [][(/\ pcall.op = "crash"
        /\ ~pst.write_on_update
        /\ flushed.cut # "crash"
        /\ pcall'.op = "from_existing") =>
           /\ pcall'.err # "parse"
           /\ pcall'.ret = "Ok" => pst'.alive /\ pst'.store = LastFlushed]_vars

(***************************************************************************)
(* Claims about the order of requests and the progress of handlers         *)
(***************************************************************************)
\* one request executed on its own on a store holding map: the map it
\* leaves and the payload of its answer
OneAtATime(message, map) ==
    CASE message.op \in {"StringGet", "StringRemove", "StringClear"} ->
            Engine(message, map)
      [] message.op = "StringSet" ->
            [map |-> [k \in DOMAIN map \cup {message.args[1]} |->
                         IF k = message.args[1] THEN message.args[2]
                         ELSE map[k]],
             payload |-> <<"O", "K">>]
      [] message.op = "Dump" -> [map |-> map, payload |-> <<"O", "K">>]
      [] OTHER -> [map |-> map, payload |-> NoopText]

\* the store after the first n requests of lockLog, one at a time
RECURSIVE SerialMap(_)
SerialMap(n) ==
    IF n = 0 THEN [k \in {} |-> EmptyStr]
    ELSE OneAtATime(hmsg[lockLog[n]], SerialMap(n - 1)).map

\* the answer to the n-th request of lockLog in that execution
SerialAnswer(n) ==
    LET message == hmsg[lockLog[n]]
        code == IF message.op \in {"StringSet", "StringGet", "StringRemove",
                                   "StringClear", "Dump"}
                THEN message.op ELSE "Noop"
    IN  Answer(code, OneAtATime(message, SerialMap(n - 1)).payload)

\* C31: the store and every response of the valid requests handled so far
\* are those of executing the same requests one at a time in the order in
\* which their handlers took the lock
C31_SerialEquivalence ==
    /\ vault.strings = SerialMap(Len(lockLog))
    /\ \A n \in 1..Len(lockLog) :
          /\ pc[lockLog[n]] = "respond" => out[lockLog[n]] = SerialAnswer(n)
          /\ resp[lockLog[n]] # <<>> =>
                resp[lockLog[n]] = <<SerialAnswer(n)>>

\* two Sets of one key: the connection accepted second took the lock first,
\* and the store holds the value of the one that took it last
C31_Witness ==
    /\ lockLog = <<2, 1>>
    /\ pc[1] = "done" /\ pc[2] = "done"
    /\ hmsg[1].op = "StringSet" /\ hmsg[1].args = <<(<<"a">>), (<<"x">>)>>
    /\ hmsg[2].op = "StringSet" /\ hmsg[2].args = <<(<<"a">>), (<<"y">>)>>
    /\ vault.strings = MapPut(EmptyMap, <<"a">>, <<"x">>)
    /\ resp[1] # <<>> /\ resp[2] # <<>>

\* a handler writing its response holds the lock, was the last to take it,
\* and the store already holds the effect of its request
C33_WritingUnderLock ==
    \A h \in Conns :
        pc[h] = "respond" =>
            /\ owner = h
            /\ lockLog # <<>> /\ lockLog[Len(lockLog)] = h
            /\ vault.strings =
                   OneAtATime(hmsg[h], SerialMap(Len(lockLog) - 1)).map

\* the response of a decoded request reaches the client while its handler
\* holds the lock, and the lock is released in the step that ends the write
C33_DeliveredUnderLock ==
    \A h \in Conns :
        (resp'[h] # resp[h] /\ hmsg[h].ok) =>
            /\ owner = h /\ owner' = 0
            /\ lockLog[Len(lockLog)] = h
            /\ vault' = vault /\ lockLog' = lockLog

\* a handler that takes the lock finds every answered request applied
C33_LaterHolderObserves ==
    \A g \in Conns :
        Acquires(g) =>
            /\ vault.strings = SerialMap(Len(lockLog))
            /\ \A h \in Conns : (resp[h] # <<>> /\ hmsg[h].ok) => InLog(h)

\* C33: in every dispatch branch the response is written after the store
\* operation has been applied and before the lock is released, so a client
\* that has received an answer to a mutation knows that every later lock
\* holder finds it applied
C33_FlushOrdering ==
    []C33_WritingUnderLock
      /\ [][C33_DeliveredUnderLock /\ C33_LaterHolderObserves]_vars

\* a Set has been answered and released the lock; the next handler holds
\* the lock and is answering a Get with the value that Set stored
C33_Witness ==
    \E h \in Conns, g \in Conns :
        /\ lockLog = <<h, g>>
        /\ hmsg[h].op = "StringSet" /\ pc[h] = "done" /\ resp[h] # <<>>
        /\ hmsg[g].op = "StringGet" /\ pc[g] = "respond" /\ owner = g
        /\ out[g] = Answer("StringGet", hmsg[h].args[2])

(***************************************************************************)
(* The server when every lock acquisition and every response write ends    *)
(***************************************************************************)
\* tokio polls every ready task and its Mutex serves waiters in order; the
\* peer of every connection lets write_all complete or fail
FairScheduling ==
    \A h \in Conns : WF_vars(LockCompletes(h)) /\ WF_vars(WriteCompletes(h))

\* requests whose handlers differ in how they leave the lock: a Set (always
\* answered), a Dump (which sends nothing when it fails) and a text that is
\* refused before the lock
ProgressRequests ==
    {<<"S", "E", "T", ":", ":", "a", " ", "x">>,
     <<"D", "U", "M", "P", ":", ":", "p">>,
     <<"G", "E", "T">>}

FairNext ==
    \/ \E h \in Conns : Accept(h)
    \/ AcceptFails
    \/ \E h \in Conns : AcceptPeerAddrFails(h)
    \/ \E h \in Conns : HandlerPeerAddrFails(h)
    \/ \E h \in Conns : HandlerReadFails(h)
    \/ \E h \in Conns, bytes \in ProgressRequests : HandlerRead(h, bytes)
    \/ \E h \in Conns : SendErrDone(h)
    \/ \E h \in Conns : SendErrFails(h)
    \/ \E h \in Conns, outcome \in DumpOutcomes : LockAndDispatch(h, outcome)
    \/ \E h \in Conns : RespondDone(h)
    \/ \E h \in Conns : RespondFails(h)

SpecFair == ServerInit /\ [][FairNext]_vars /\ FairScheduling

\* handler h has left the critical section: its request was applied, its
\* response written or the write given up, and the lock is not its own
Served(h) == pc[h] \in {"done", "panic_write"} /\ InLog(h) /\ owner # h

\* C37: when every lock acquisition is eventually served and every
\* response write eventually completes or fails, each handler that has
\* decoded a valid request gets the lock, sends its response or aborts,
\* and releases the lock
C37_HandlersFinish == \A h \in Conns : (pc[h] = "lock_wait") ~> Served(h)

\* both handlers were served, the first after a failed write
C37_Witness ==
    /\ lockLog = <<2, 1>>
    /\ Served(1) /\ Served(2)
    /\ pc[2] = "panic_write" /\ pc[1] = "done"
    /\ resp[1] # <<>>
    /\ owner = 0

(***************************************************************************)
(* Claims about argument access                                            *)
(***************************************************************************)
\* the arguments handler indexes for the operation exist: args[0] and
\* args[1] for Set, args[0] for Get, Remove and Dump
ArgsInBounds(message) ==
    /\ message.op = "StringSet" => Len(message.args) >= 2
    /\ message.op \in {"StringGet", "StringRemove", "Dump"} =>
          Len(message.args) >= 1

\* C38: parse_request returns Ok or one of its two errors for every text,
\* reads the second segment of the split only when there is one, and every
\* message it accepts, in the codec and in a handler, has the arguments the
\* handler indexes for its operation
C38_ArgumentAccessInBounds ==
    /\ pphase = "parsed" =>
          /\ Len(SplitOn(input, Delim)) >= 1
          /\ presult.ok \/ presult.err \in {"InvalidFormat", "InvalidMessage"}
          /\ Len(SplitOn(input, Delim)) < 2 => ~presult.ok
          /\ presult.ok => ArgsInBounds(presult)
    /\ \A h \in Conns :
          HasRead(h) =>
              /\ hmsg[h].ok \/ hmsg[h].err \in {"InvalidFormat", "InvalidMessage"}
              /\ hmsg[h].ok => ArgsInBounds(hmsg[h])

\* a Set with exactly two arguments was dispatched and answered
C38_Witness ==
    \E h \in Conns :
        /\ pc[h] = "done" /\ InLog(h)
        /\ hmsg[h].op = "StringSet" /\ Len(hmsg[h].args) = 2
        /\ resp[h] = <<Answer("StringSet", <<"O", "K">>)>>

(***************************************************************************)
(* A value on the wire: the client sends SET key value, the server decodes *)
(* it, and the client parses the answer of a GET on a store holding value  *)
(***************************************************************************)
WireValues == TextsUpTo({":", "a"}, MaxValue) \ {<<>>}

WireInit ==
    /\ cop = "StringSet"
    /\ cargs \in {<<(<<"a">>), v>> : v \in WireValues}
    /\ input = <<>>
    /\ pphase = "message"
    /\ presult = NoResult
    /\ rresult = <<>>
    /\ StoreIdle
    /\ ServerIdle
    /\ PersistIdle

\* the handler reads the request and decodes it
WireDecode ==
    /\ pphase = "input"
    /\ presult' = parse_request(read_from_client(input))
    /\ pphase' = "parsed"
    /\ UNCHANGED <<input, rresult, cop, cargs, storeVars, serverVars,
                   persistVars>>

\* RubinClient::request on the answer to a GET of a key that holds value
WireReadBack ==
    /\ pphase = "parsed"
    /\ input' = Response("StringGet", cargs[2])
    /\ rresult' = parse_response(Response("StringGet", cargs[2]))
    /\ pphase' = "response"
    /\ UNCHANGED <<presult, cop, cargs, storeVars, serverVars, persistVars>>

WireNext == CreateRequest \/ WireDecode \/ WireReadBack

SpecWire == WireInit /\ [][WireNext]_vars

\* C40: `::` inside a text is not escaped: the arguments parse_request
\* builds are the space-split pieces of the text between the first and the
\* second delimiter only, and parse_response returns only that text,
\* trimmed; so a value is stored by Set and read back by the client intact
\* exactly when it holds no `::`, and a value that holds one is cut
C40_DelimiterCuts ==
    /\ pphase \in {"parsed", "response"} =>
          /\ presult.ok =>
                JoinWith(presult.args, Space)
                  = ArgText(create_request(cop, cargs))
          /\ Framed(cargs[2]) => ~(presult.ok /\ presult.args = cargs)
          /\ ~Framed(cargs[2]) => presult.ok /\ presult.args = cargs
    /\ pphase = "response" =>
          /\ rresult = trim(ArgText(input))
          /\ Framed(cargs[2]) => rresult # cargs[2]
          /\ ~Framed(cargs[2]) => rresult = cargs[2]

C40_Witness ==
    /\ pphase = "response"
    /\ cargs[2] = <<"a", ":", ":", "a">>
    /\ presult.ok
    /\ presult.args = <<(<<"a">>), (<<"a">>)>>
    /\ rresult = <<"a">>
====
